---- MODULE Spec2Model ----
(***************************************************************************)
(* Model of the prompt-to-website generator: the Flask endpoints (app.py), *)
(* the Gemini-backed spec converter and its normaliser (converter.py), the *)
(* rule-based converter (coverter.py), the pydantic schema (schema.py),    *)
(* the component generator (component_templates.py) and the website        *)
(* generator (website_generator.py).                                       *)
(*                                                                         *)
(* Text is modelled as a sequence of one-character strings, so that        *)
(* lower(), replace() and title() are computed character by character.     *)
(***************************************************************************)
EXTENDS Integers, Sequences, FiniteSets, TLC

(***************************************************************************)
(* Bounds of the model                                                     *)
(***************************************************************************)
MaxPages == 2        \* pages of one decoded document or Spec
MaxSections == 2     \* sections of one Spec, all pages together
MaxEntries == 2      \* section entries of one decoded document, all pages together
GenPeriod == 1       \* length of the repeating plan of body-generator replies
MaxRequests == 2     \* requests the web application handles in one run
MaxExtra == 1        \* pages a Spec has besides /, /about, /services and /contact
MaxTokens == 4       \* tokens of a text given to _strip_code_fences

(***************************************************************************)
(* Python str operations used by the code                                  *)
(***************************************************************************)
LowerLetters == <<"a","b","c","d","e","f","g","h","i","j","k","l","m",
                  "n","o","p","q","r","s","t","u","v","w","x","y","z">>
UpperLetters == <<"A","B","C","D","E","F","G","H","I","J","K","L","M",
                  "N","O","P","Q","R","S","T","U","V","W","X","Y","Z">>

LowerSet == {LowerLetters[i] : i \in DOMAIN LowerLetters}
UpperSet == {UpperLetters[i] : i \in DOMAIN UpperLetters}
IsLower(c) == c \in LowerSet
IsUpper(c) == c \in UpperSet

ToLower == [c \in UpperSet |->
              LowerLetters[CHOOSE i \in DOMAIN UpperLetters : UpperLetters[i] = c]]
ToUpper == [c \in LowerSet |->
              UpperLetters[CHOOSE i \in DOMAIN LowerLetters : LowerLetters[i] = c]]

LowerChar(c) == IF IsUpper(c) THEN ToLower[c] ELSE c
UpperChar(c) == IF IsLower(c) THEN ToUpper[c] ELSE c

\* str.lower()
StrLower(s) == [i \in DOMAIN s |-> LowerChar(s[i])]

\* str.replace(a, b) for one-character a and b
StrReplaceChar(s, a, b) == [i \in DOMAIN s |-> IF s[i] = a THEN b ELSE s[i]]

\* str.replace(a, '') for a one-character a
StrRemoveChar(s, a) == SelectSeq(s, LAMBDA c : c # a)

\* str.title(): the first cased character after an uncased one is upper-cased,
\* every other cased character is lower-cased
RECURSIVE TitleFrom(_, _, _)
TitleFrom(s, i, prevCased) ==
    IF i > Len(s) THEN << >>
    ELSE LET c == s[i] IN
         IF IsLower(c) \/ IsUpper(c)
         THEN << (IF prevCased THEN LowerChar(c) ELSE UpperChar(c)) >>
              \o TitleFrom(s, i + 1, TRUE)
         ELSE << c >> \o TitleFrom(s, i + 1, FALSE)

StrTitle(s) == TitleFrom(s, 1, FALSE)

(***************************************************************************)
(* schema.py                                                               *)
(***************************************************************************)
SectionType == {"Hero", "FeatureGrid", "ProductGrid", "Testimonials", "Pricing",
                "FAQ", "RichText", "ContactForm", "CTA"}

SpacingScales == {"tight", "normal", "roomy"}
TypeScales == {"sm", "md", "lg"}

\* DesignTokens(): every field at its declared default.  A colour, font or
\* radius that the document supplied is the value "input".
DefaultColors == [primary |-> "#C62828", background |-> "#ffffff", foreground |-> "#111111"]
DefaultFont == [heading |-> "Inter", body |-> "Inter"]
DefaultTokens ==
    [colors |-> DefaultColors, font |-> DefaultFont, radius |-> "12px",
     spacingScale |-> "tight", typeScale |-> "md"]

\* Spec.project default
DefaultProject == [hasName |-> TRUE, name |-> <<"M","i","n","i">>]

(***************************************************************************)
(* Decoded documents handed to the normaliser.  A dict key that may be     *)
(* missing is a has* flag next to the value.                               *)
(***************************************************************************)
Str_slash == <<"/">>
Str_home == <<"h","o","m","e">>
Str_Home == <<"H","o","m","e">>
Str_about == <<"/","a","b","o","u","t">>
Str_services == <<"/","s","e","r","v","i","c","e","s">>
Str_contact == <<"/","c","o","n","t","a","c","t">>
Str_AboutUs == <<"A","b","o","u","t"," ","U","s">>

\* identifiers: the document supplies small numbers, uuid4() returns
\* FreshBase + k on its k-th call (never a supplied one, never a repeat)
FreshBase == 100

StrEntry(t) ==
    [shape |-> "str", type |-> t, hasType |-> TRUE, hasId |-> FALSE, id |-> 0,
     hasProps |-> FALSE]
DictEntry(hasType, t, hasId, id, hasProps) ==
    [shape |-> "dict", type |-> t, hasType |-> hasType, hasId |-> hasId, id |-> id,
     hasProps |-> hasProps]
\* a list element that is neither a str nor a dict (a number, null, a list)
OtherEntry ==
    [shape |-> "other", type |-> "", hasType |-> FALSE, hasId |-> FALSE, id |-> 0,
     hasProps |-> FALSE]

RawPage(hasRoute, route, hasName, name, hasSeo, hasSections, sections) ==
    [hasRoute |-> hasRoute, route |-> route, hasName |-> hasName, name |-> name,
     hasSeo |-> hasSeo, hasSections |-> hasSections, sections |-> sections]

RawTokens(given, hasColors, colorKeys, hasFont, fontKeys, hasRadius, hasSp, sp, hasTs, ts) ==
    [given |-> given, hasColors |-> hasColors, colorKeys |-> colorKeys,
     hasFont |-> hasFont, fontKeys |-> fontKeys, hasRadius |-> hasRadius,
     hasSpacing |-> hasSp, spacing |-> sp, hasTypeScale |-> hasTs, typeScale |-> ts]

RawProject(given, hasName, name) == [given |-> given, hasName |-> hasName, name |-> name]

RawDoc(project, tokens, hasPages, pages) ==
    [project |-> project, designTokens |-> tokens, hasPages |-> hasPages, pages |-> pages]

(***************************************************************************)
(* converter.py: _normalize_data                                           *)
(***************************************************************************)
SupportedTypes == {"Hero", "FeatureGrid", "ProductGrid", "Testimonials", "Pricing",
                   "FAQ", "RichText", "ContactForm", "CTA"}

\* StringSectionType without the RichText default for an unknown string
StringSectionType_keepUnknown(section) ==
    IF section = "ProjectGrid" THEN "ProductGrid"
    ELSE IF section = "FeaturedProjects" THEN "ProductGrid"
    ELSE section

\* lines 72-78: the kind of a section given as a bare string
StringSectionType(section) ==
    IF section = "ProjectGrid" THEN "ProductGrid"
    ELSE IF section = "FeaturedProjects" THEN "ProductGrid"
    ELSE IF section \notin SupportedTypes THEN "RichText"
    ELSE section

\* NormalizeRoute without the special case of the name Home
NormalizeRoute_noHome(page) ==
    IF ~page.hasRoute
    THEN IF page.hasName
         THEN <<"/">> \o StrReplaceChar(StrLower(page.name), " ", "-")
         ELSE Str_slash
    ELSE page.route

\* lines 41-53
NormalizeRoute(page) ==
    IF ~page.hasRoute
    THEN IF page.hasName
         THEN LET route == StrReplaceChar(StrLower(page.name), " ", "-")
              IN  IF route = Str_home THEN Str_slash ELSE <<"/">> \o route
         ELSE Str_slash
    ELSE page.route

\* lines 56-63: which seo the normalised page carries
NormalizeSeo(page) ==
    IF page.hasSeo THEN "explicit"
    ELSE IF page.hasName THEN "fromName"
    ELSE "none"

\* lines 66-92: the sections of one page; n counts the uuid4() calls made so far
RECURSIVE NormalizeSections(_, _, _)
NormalizeSections(sections, i, n) ==
    IF i > Len(sections) THEN [out |-> << >>, n |-> n]
    ELSE LET section == sections[i] IN
         IF section.shape = "str"
         THEN LET rest == NormalizeSections(sections, i + 1, n + 1)
              IN  [out |-> << [hasId |-> TRUE, id |-> FreshBase + n, hasType |-> TRUE,
                               type |-> StringSectionType(section.type),
                               props |-> "empty"] >> \o rest.out,
                   n |-> rest.n]
         ELSE IF section.shape = "dict"
         THEN LET fresh == ~section.hasId
                  rest == NormalizeSections(sections, i + 1, IF fresh THEN n + 1 ELSE n)
              IN  [out |-> << [hasId |-> TRUE,
                               id |-> IF fresh THEN FreshBase + n ELSE section.id,
                               hasType |-> section.hasType, type |-> section.type,
                               props |-> IF section.hasProps THEN "input" ELSE "empty"] >>
                              \o rest.out,
                   n |-> rest.n]
         ELSE NormalizeSections(sections, i + 1, n)

\* lines 37-95: the page loop
RECURSIVE NormalizePages(_, _, _)
NormalizePages(pages, i, n) ==
    IF i > Len(pages) THEN << >>
    ELSE LET page == pages[i]
             secs == IF page.hasSections THEN NormalizeSections(page.sections, 1, n)
                     ELSE [out |-> << >>, n |-> n]
         IN  << [route |-> NormalizeRoute(page), seo |-> NormalizeSeo(page),
                 sections |-> secs.out] >>
             \o NormalizePages(pages, i + 1, secs.n)

\* lines 32-99
normalize_data(data) ==
    IF data.hasPages
    THEN [data EXCEPT !.pages = NormalizePages(data.pages, 1, 0)]
    ELSE data

(***************************************************************************)
(* schema.py: Spec construction, pydantic validation of a normalised doc   *)
(***************************************************************************)
\* Section: type is required and must be a SectionType literal
SectionValid(section) == section.hasType /\ section.type \in SectionType

PageValid(page) == \A i \in DOMAIN page.sections : SectionValid(page.sections[i])

TokensValid(t) ==
    ~t.given \/ ( /\ (t.hasSpacing => t.spacing \in SpacingScales)
                  /\ (t.hasTypeScale => t.typeScale \in TypeScales) )

\* DesignTokens construction from t: a supplied field replaces the default of that field whole
TokensOf(t) ==
    IF ~t.given THEN DefaultTokens
    ELSE [colors |-> IF t.hasColors THEN [k \in t.colorKeys |-> "input"] ELSE DefaultColors,
          font |-> IF t.hasFont THEN [k \in t.fontKeys |-> "input"] ELSE DefaultFont,
          radius |-> IF t.hasRadius THEN "input" ELSE "12px",
          spacingScale |-> IF t.hasSpacing THEN t.spacing ELSE "tight",
          typeScale |-> IF t.hasTypeScale THEN t.typeScale ELSE "md"]

ProjectOf(p) == IF ~p.given THEN DefaultProject ELSE [hasName |-> p.hasName, name |-> p.name]

SectionOf(section) == [id |-> section.id, type |-> section.type, props |-> section.props]

PageOf(page) ==
    [route |-> page.route, seo |-> page.seo,
     sections |-> [i \in DOMAIN page.sections |-> SectionOf(page.sections[i])]]

EmptySpec == [project |-> DefaultProject, designTokens |-> DefaultTokens, pages |-> << >>]

\* the outcome of Spec construction from data: ok with the Spec, or a ValidationError
SpecValidate(data) ==
    LET pages == IF data.hasPages THEN data.pages ELSE << >> IN
    IF /\ TokensValid(data.designTokens)
       /\ \A i \in DOMAIN pages : PageValid(pages[i])
    THEN [ok |-> TRUE,
          spec |-> [project |-> ProjectOf(data.project),
                    designTokens |-> TokensOf(data.designTokens),
                    pages |-> [i \in DOMAIN pages |-> PageOf(pages[i])]]]
    ELSE [ok |-> FALSE, spec |-> EmptySpec]

\* converter.py lines 120-123: _normalize_data followed by Spec construction
Normalize(data) == SpecValidate(normalize_data(data))

(***************************************************************************)
(* component_templates.py: ComponentGenerator                              *)
(*                                                                         *)
(* The text returned by the language model is a sequence of lines; a line  *)
(* is one of: "fence" (a bare triple backtick), "fencetag" (a triple       *)
(* backtick followed by a language tag), "code" (text without a fence) and *)
(* "blank" (whitespace only).                                              *)
(***************************************************************************)
IsFenceStart(line) == line \in {"fence", "fencetag"}    \* line.strip().startswith('```')
IsBareFence(line) == line = "fence"                      \* line.strip() == '```'
HasFence(lines) == \E i \in DOMAIN lines : lines[i] \in {"fence", "fencetag"}

\* str.strip() of the joined lines: leading and trailing blank lines go
RECURSIVE StripLines(_)
StripLines(lines) ==
    IF lines = << >> THEN << >>
    ELSE IF Head(lines) = "blank" THEN StripLines(Tail(lines))
    ELSE IF lines[Len(lines)] = "blank" THEN StripLines(SubSeq(lines, 1, Len(lines) - 1))
    ELSE lines

\* lines 130-145: the slice between the first opening and the last bare fence
RemoveFences(lines) ==
    LET starts == {i \in DOMAIN lines : IsFenceStart(lines[i])}
        ends == {i \in DOMAIN lines : IsBareFence(lines[i])}
        start_idx == IF starts = {} THEN 0
                     ELSE (CHOOSE i \in starts : \A j \in starts : i <= j)
        end_idx == IF ends = {} THEN Len(lines)
                   ELSE (CHOOSE i \in ends : \A j \in ends : j <= i) - 1
    IN  SubSeq(lines, start_idx + 1, end_idx)

\* get_fallback_component of either class: a fixed, non-empty template
FallbackBody(origin, section_type) ==
    [origin |-> origin, kind |-> section_type, lines |-> <<"code">>]

\* what the language model does on one call of the body generator: it
\* raises, returns something whose text is not a str, or returns lines
GenRaise == [kind |-> "raise", lines |-> << >>]
GenNonText == [kind |-> "nontext", lines |-> << >>]
GenText(lines) == [kind |-> "text", lines |-> lines]

\* lines 124-154
CT_generate_component(section_type, reply) ==
    IF reply.kind \in {"raise", "nontext"}
    THEN FallbackBody("component_templates", section_type)
    ELSE LET text == StripLines(reply.lines)                 \* line 100
             code == IF HasFence(text) THEN RemoveFences(text) ELSE text
         IN  [origin |-> "model", kind |-> section_type, lines |-> StripLines(code)]

(***************************************************************************)
(* website_generator.py: WebsiteGenerator                                  *)
(***************************************************************************)
KindChars(kind) ==
    CASE kind = "Hero" -> <<"H","e","r","o">>
      [] kind = "FeatureGrid" -> <<"F","e","a","t","u","r","e","G","r","i","d">>
      [] kind = "ProductGrid" -> <<"P","r","o","d","u","c","t","G","r","i","d">>
      [] kind = "Testimonials" -> <<"T","e","s","t","i","m","o","n","i","a","l","s">>
      [] kind = "Pricing" -> <<"P","r","i","c","i","n","g">>
      [] kind = "FAQ" -> <<"F","A","Q">>
      [] kind = "RichText" -> <<"R","i","c","h","T","e","x","t">>
      [] kind = "ContactForm" -> <<"C","o","n","t","a","c","t","F","o","r","m">>
      [] kind = "CTA" -> <<"C","T","A">>
      [] kind = "Header" -> <<"H","e","a","d","e","r">>
      [] kind = "Footer" -> <<"F","o","o","t","e","r">>

Str_Page == <<"P","a","g","e">>

\* lines 45-63: the body is passed through unless the component generator
\* raised or returned something that is not a str
IsText(component_code) == component_code.origin \in {"model", "component_templates", "website_generator"}

WG_generate_component(section, reply) ==
    LET component_code == CT_generate_component(section.type, reply)
    IN  IF ~IsText(component_code)
        THEN FallbackBody("website_generator", section.type)
        ELSE component_code

\* lines 443, 560, 717, 782: page.route.replace('/', '').title() or 'Home'
PageName(route) ==
    LET name == StrTitle(StrRemoveChar(route, "/"))
    IN  IF name = << >> THEN Str_Home ELSE name

\* lines 752-754 and 454-457
ComponentName(page_name, kind) ==
    IF kind \notin {"Header", "Footer"} /\ page_name # Str_Home
    THEN page_name \o KindChars(kind)
    ELSE KindChars(kind)

\* lines 447 and 466, lines 722 and 730
ChromeName(page_name, kind) ==
    IF page_name # Str_Home THEN page_name \o KindChars(kind) ELSE KindChars(kind)

\* the k-th call of the body generator in one expansion answers plan[k],
\* the plan repeating with its own length
ReplyOf(plan, k) == plan[((k - 1) % Len(plan)) + 1]

WriteComponent(st, name, body) ==
    [st EXCEPT !.components = (name :> body) @@ st.components,
               !.writes = Append(st.writes, name)]

\* lines 720-748: the Header and the Footer file of one page
GenerateChrome(st, page_name) ==
    LET header_name == ChromeName(page_name, "Header")
        footer_name == ChromeName(page_name, "Footer")
        st1 == IF header_name \notin st.generated
               THEN [WriteComponent(st, header_name, FallbackBody("website_generator", "Header"))
                        EXCEPT !.generated = st.generated \cup {header_name}]
               ELSE st
    IN  IF footer_name \notin st1.generated
        THEN [WriteComponent(st1, footer_name, FallbackBody("website_generator", "Footer"))
                 EXCEPT !.generated = st1.generated \cup {footer_name}]
        ELSE st1

\* GenerateSections without the test of generated_components
RECURSIVE GenerateSections_unguarded(_, _, _, _, _)
GenerateSections_unguarded(st, page_name, sections, i, plan) ==
    IF i > Len(sections) THEN st
    ELSE LET section == sections[i]
             component_name == ComponentName(page_name, section.type)
             custom == section.type \notin {"Header", "Footer"}
             body == IF custom
                     THEN WG_generate_component(section, ReplyOf(plan, st.calls + 1))
                     ELSE FallbackBody("website_generator", section.type)
             st1 == WriteComponent(st, component_name, body)
             st2 == [st1 EXCEPT
                       !.calls = IF custom THEN st.calls + 1 ELSE st.calls,
                       !.generated = st.generated
                            \cup {component_name, KindChars(section.type)}]
         IN  GenerateSections_unguarded(st2, page_name, sections, i + 1, plan)

\* lines 751-778: the section components of one page
RECURSIVE GenerateSections(_, _, _, _, _)
GenerateSections(st, page_name, sections, i, plan) ==
    IF i > Len(sections) THEN st
    ELSE LET section == sections[i]
             component_name == ComponentName(page_name, section.type)
         IN  IF component_name \notin st.generated
             THEN LET custom == section.type \notin {"Header", "Footer"}
                      body == IF custom
                              THEN WG_generate_component(section, ReplyOf(plan, st.calls + 1))
                              ELSE FallbackBody("website_generator", section.type)
                      st1 == WriteComponent(st, component_name, body)
                      st2 == [st1 EXCEPT
                                !.calls = IF custom THEN st.calls + 1 ELSE st.calls,
                                !.generated = st.generated
                                     \cup {component_name, KindChars(section.type)}]
                  IN  GenerateSections(st2, page_name, sections, i + 1, plan)
             ELSE GenerateSections(st, page_name, sections, i + 1, plan)

\* lines 714-778: the component loop over spec.pages
RECURSIVE GenerateComponents(_, _, _, _)
GenerateComponents(st, pages, i, plan) ==
    IF i > Len(pages) THEN st
    ELSE LET page_name == PageName(pages[i].route)
             st1 == GenerateChrome(st, page_name)
             st2 == GenerateSections(st1, page_name, pages[i].sections, 1, plan)
         IN  GenerateComponents(st2, pages, i + 1, plan)

\* PageSections with a component rendered only where it is first imported
RECURSIVE PageSections_renderOnce(_, _, _, _)
PageSections_renderOnce(acc, page_name, sections, i) ==
    IF i > Len(sections) THEN acc
    ELSE LET component_name == ComponentName(page_name, sections[i].type)
             acc1 == IF component_name \notin acc.imported
                     THEN [acc EXCEPT !.imports = Append(acc.imports, component_name),
                                      !.imported = acc.imported \cup {component_name},
                                      !.jsx = Append(acc.jsx, component_name)]
                     ELSE acc
         IN  PageSections_renderOnce(acc1, page_name, sections, i + 1)

\* lines 430-485: the imports and the rendered components of one page file
RECURSIVE PageSections(_, _, _, _)
PageSections(acc, page_name, sections, i) ==
    IF i > Len(sections) THEN acc
    ELSE LET component_name == ComponentName(page_name, sections[i].type)
             acc1 == IF component_name \notin acc.imported
                     THEN [acc EXCEPT !.imports = Append(acc.imports, component_name),
                                      !.imported = acc.imported \cup {component_name}]
                     ELSE acc
         IN  PageSections([acc1 EXCEPT !.jsx = Append(acc1.jsx, component_name)],
                          page_name, sections, i + 1)

generate_page(page) ==
    LET has_header == \E i \in DOMAIN page.sections : page.sections[i].type = "Header"
        has_footer == \E i \in DOMAIN page.sections : page.sections[i].type = "Footer"
        page_name == PageName(page.route)
        header_component == ChromeName(page_name, "Header")
        footer_component == ChromeName(page_name, "Footer")
        acc0 == IF ~has_header
                THEN [imports |-> <<header_component>>, jsx |-> <<header_component>>,
                      imported |-> {header_component}]
                ELSE [imports |-> << >>, jsx |-> << >>, imported |-> {}]
        acc1 == PageSections(acc0, page_name, page.sections, 1)
        acc2 == IF ~has_footer
                THEN [acc1 EXCEPT
                        !.imports = IF footer_component \notin acc1.imported
                                    THEN Append(acc1.imports, footer_component)
                                    ELSE acc1.imports,
                        !.jsx = Append(acc1.jsx, footer_component)]
                ELSE acc1
    IN  [name |-> page_name \o Str_Page, route |-> page.route,
         imports |-> acc2.imports, jsx |-> acc2.jsx]

\* lines 781-785: the page loop; a later page with the same file name
\* replaces the file of an earlier one
RECURSIVE GeneratePages(_, _, _)
GeneratePages(files, pages, i) ==
    IF i > Len(pages) THEN files
    ELSE LET page_code == generate_page(pages[i])
         IN  GeneratePages((page_code.name :> page_code) @@ files, pages, i + 1)

\* generate_app_component with a Route for /, /about, /services and /contact
\* appended whether or not the list has the page
generate_app_component_addDefaults(pages) ==
    LET defaults == <<Str_slash, Str_about, Str_services, Str_contact>>
        routes == [i \in DOMAIN pages |-> pages[i].route] \o defaults
    IN  [i \in DOMAIN routes |->
            [path |-> routes[i], element |-> PageName(routes[i]) \o Str_Page]]

\* lines 554-579: one import and one Route per page of the list
generate_app_component(pages) ==
    [i \in DOMAIN pages |->
        [path |-> pages[i].route, element |-> PageName(pages[i].route) \o Str_Page]]

\* lines 672, 788: spec.project['name'].replace(' ', '-').lower()
Slug(name) == StrLower(StrReplaceChar(name, " ", "-"))

NoSite ==
    [raised |-> FALSE, slug |-> << >>, app |-> << >>, components |-> << >>,
     writes |-> << >>, generated |-> {}, calls |-> 0, pages |-> << >>]

\* lines 668-795.  The result has raised = TRUE when the project has no name
\* (KeyError, line 672) or an empty one (os.makedirs of the existing
\* temporary directory, line 673); nothing has been written by then.
generate_website(spec, plan) ==
    IF ~spec.project.hasName \/ spec.project.name = << >>
    THEN [NoSite EXCEPT !.raised = TRUE]
    ELSE LET st == GenerateComponents(
                     [generated |-> {}, components |-> << >>, writes |-> << >>, calls |-> 0],
                     spec.pages, 1, plan)
         IN  [raised |-> FALSE,
              slug |-> Slug(spec.project.name),
              app |-> generate_app_component(spec.pages),
              components |-> st.components,
              writes |-> st.writes,
              generated |-> st.generated,
              calls |-> st.calls,
              pages |-> GeneratePages(<< >>, spec.pages, 1)]

(***************************************************************************)
(* converter.py: _strip_code_fences and gemini_spec_from_prompt            *)
(*                                                                         *)
(* The reply of the language model to the spec request is a sequence of    *)
(* tokens: "fence" (a triple backtick), "json" (the word json), "ws" (a    *)
(* run of whitespace), "doc" (the JSON text of a document) and "junk"      *)
(* (any other text).                                                       *)
(***************************************************************************)
\* str.strip() on tokens
RECURSIVE StripTokens(_)
StripTokens(s) ==
    IF s = << >> THEN << >>
    ELSE IF Head(s) = "ws" THEN StripTokens(Tail(s))
    ELSE IF s[Len(s)] = "ws" THEN StripTokens(SubSeq(s, 1, Len(s) - 1))
    ELSE s

\* the number of leading "ws" tokens of s
RECURSIVE LeadingWs(_)
LeadingWs(s) == IF s # << >> /\ Head(s) = "ws" THEN 1 + LeadingWs(Tail(s)) ELSE 0

\* the number of trailing "ws" tokens of s
RECURSIVE TrailingWs(_)
TrailingWs(s) ==
    IF s # << >> /\ s[Len(s)] = "ws" THEN 1 + TrailingWs(SubSeq(s, 1, Len(s) - 1)) ELSE 0

\* line 14: re.sub(r"^```(?:json)?\s*|\s*```$", "", s, flags=re.S) on a
\* text that starts with a fence
SubFences(s) ==
    LET afterFence == Tail(s)
        afterTag == IF afterFence # << >> /\ Head(afterFence) = "json"
                    THEN Tail(afterFence) ELSE afterFence
        rest == SubSeq(afterTag, LeadingWs(afterTag) + 1, Len(afterTag))
    IN  IF rest # << >> /\ rest[Len(rest)] = "fence"
        THEN LET body == SubSeq(rest, 1, Len(rest) - 1)
             IN  SubSeq(body, 1, Len(body) - TrailingWs(body))
        ELSE rest

\* lines 10-15
strip_code_fences(s) ==
    LET t == StripTokens(s)
    IN  IF t # << >> /\ Head(t) = "fence" THEN StripTokens(SubFences(t)) ELSE StripTokens(t)

\* json.loads succeeds exactly on the text of one document
JsonLoads(raw) == raw = <<"doc">>

NoBuild == [raised |-> FALSE, spec |-> EmptySpec, calls |-> 0]

\* what the language model does on the spec request: it raises, or returns
\* a text whose "doc" token is the JSON encoding of doc
EmptyDoc ==
    RawDoc(RawProject(FALSE, FALSE, << >>),
           RawTokens(FALSE, FALSE, {}, FALSE, {}, FALSE, FALSE, "", FALSE, ""),
           FALSE, << >>)
LlmRaise == [kind |-> "raise", text |-> << >>, doc |-> EmptyDoc]
LlmText(text, doc) == [kind |-> "text", text |-> text, doc |-> doc]

\* lines 101-123.  The result tells whether an exception left the function, the Spec it
\* returned otherwise, and the number of calls of the language model.
gemini_spec_from_prompt(api_key, prompt, reply) ==
    IF ~api_key THEN [NoBuild EXCEPT !.raised = TRUE]             \* ValueError, line 104
    ELSE IF reply.kind = "raise" THEN [raised |-> TRUE, spec |-> EmptySpec, calls |-> 1]
    ELSE LET raw == strip_code_fences(reply.text) IN
         IF ~JsonLoads(raw) THEN [raised |-> TRUE, spec |-> EmptySpec, calls |-> 1]
         ELSE LET built == Normalize(reply.doc)
              IN  [raised |-> ~built.ok, spec |-> built.spec, calls |-> 1]

(***************************************************************************)
(* coverter.py: the rule-based converter and the converter that falls back *)
(* to it                                                                   *)
(***************************************************************************)
\* k in p
Contains(p, k) ==
    \E i \in 0..(Len(p) - Len(k)) : SubSeq(p, i + 1, i + Len(k)) = k

\* the keywords the rule-based converter looks for in the lowercased prompt
Keywords ==
    [blue |-> <<"b","l","u","e">>,
     green |-> <<"g","r","e","e","n">>,
     purple |-> <<"p","u","r","p","l","e">>,
     black |-> <<"b","l","a","c","k">>,
     dark |-> <<"d","a","r","k">>,
     red |-> <<"r","e","d">>,
     maroon |-> <<"m","a","r","o","o","n">>,
     serif |-> <<"s","e","r","i","f">>,
     mono |-> <<"m","o","n","o">>,
     compact |-> <<"c","o","m","p","a","c","t">>,
     tight |-> <<"t","i","g","h","t">>,
     spacious |-> <<"s","p","a","c","i","o","u","s">>,
     airy |-> <<"a","i","r","y">>,
     roomy |-> <<"r","o","o","m","y">>,
     big_typography |-> <<"b","i","g"," ","t","y","p","o","g","r","a","p","h","y">>,
     bold_headings |-> <<"b","o","l","d"," ","h","e","a","d","i","n","g","s">>,
     product |-> <<"p","r","o","d","u","c","t">>,
     store |-> <<"s","t","o","r","e">>,
     catalog |-> <<"c","a","t","a","l","o","g">>,
     shop |-> <<"s","h","o","p">>,
     testimonial |-> <<"t","e","s","t","i","m","o","n","i","a","l">>,
     faq |-> <<"f","a","q">>,
     contact |-> <<"c","o","n","t","a","c","t">>,
     reach_us |-> <<"r","e","a","c","h"," ","u","s">>,
     pricing |-> <<"p","r","i","c","i","n","g">>,
     plans |-> <<"p","l","a","n","s">>,
     about |-> <<"a","b","o","u","t">>,
     company |-> <<"c","o","m","p","a","n","y">>,
     who_we_are |-> <<"w","h","o"," ","w","e"," ","a","r","e">>]

\* lines 7-14
pick_color(prompt) ==
    LET p == StrLower(prompt) IN
    IF Contains(p, Keywords.blue) THEN "#1E3A8A"
    ELSE IF Contains(p, Keywords.green) THEN "#166534"
    ELSE IF Contains(p, Keywords.purple) THEN "#6D28D9"
    ELSE IF Contains(p, Keywords.black) \/ Contains(p, Keywords.dark) THEN "#111111"
    ELSE IF Contains(p, Keywords.red) \/ Contains(p, Keywords.maroon) THEN "#C62828"
    ELSE "#0F766E"

\* lines 17-21
pick_font(prompt) ==
    LET p == StrLower(prompt) IN
    IF Contains(p, Keywords.serif) THEN [heading |-> "Merriweather", body |-> "Merriweather"]
    ELSE IF Contains(p, Keywords.mono) THEN [heading |-> "JetBrains Mono", body |-> "JetBrains Mono"]
    ELSE [heading |-> "Inter", body |-> "Inter"]

\* lines 24-28
pick_spacing(prompt) ==
    LET p == StrLower(prompt) IN
    IF Contains(p, Keywords.compact) \/ Contains(p, Keywords.tight) THEN "tight"
    ELSE IF Contains(p, Keywords.spacious) \/ Contains(p, Keywords.airy) \/ Contains(p, Keywords.roomy) THEN "roomy"
    ELSE "normal"

\* Section(type=..., props=...): the identifier is the next uuid4()
NewSections(kinds, props, n) ==
    [i \in DOMAIN kinds |-> [id |-> FreshBase + n + i - 1, type |-> kinds[i], props |-> props[i]]]

\* naive_spec_from_prompt with the keywords looked up in the prompt as typed
naive_spec_from_prompt_caseSensitive(prompt) ==
    LET p == prompt
        tokens == [colors |-> [DefaultColors EXCEPT !.primary = pick_color(prompt)],
                   font |-> pick_font(prompt),
                   radius |-> "12px",
                   spacingScale |-> pick_spacing(prompt),
                   typeScale |-> IF Contains(p, Keywords.big_typography) \/ Contains(p, Keywords.bold_headings)
                                 THEN "lg" ELSE "md"]
        wants_products == \/ Contains(p, Keywords.product) \/ Contains(p, Keywords.store)
                          \/ Contains(p, Keywords.catalog) \/ Contains(p, Keywords.shop)
        wants_testimonials == Contains(p, Keywords.testimonial)
        wants_faq == Contains(p, Keywords.faq)
        wants_contact == Contains(p, Keywords.contact) \/ Contains(p, Keywords.reach_us)
        wants_pricing == Contains(p, Keywords.pricing) \/ Contains(p, Keywords.plans)
        wants_about == \/ Contains(p, Keywords.about) \/ Contains(p, Keywords.company)
                       \/ Contains(p, Keywords.who_we_are)
        home_kinds == <<"Hero">>
                      \o (IF wants_products THEN <<"ProductGrid">> ELSE << >>)
                      \o <<"FeatureGrid">>
                      \o (IF wants_pricing THEN <<"Pricing">> ELSE << >>)
                      \o (IF wants_testimonials THEN <<"Testimonials">> ELSE << >>)
                      \o (IF wants_faq THEN <<"FAQ">> ELSE << >>)
        home_props == <<IF wants_contact THEN "hero:/contact" ELSE "hero:#">>
                      \o (IF wants_products THEN <<"count">> ELSE << >>)
                      \o <<"items">>
                      \o (IF wants_pricing THEN <<"plans">> ELSE << >>)
                      \o (IF wants_testimonials THEN <<"empty">> ELSE << >>)
                      \o (IF wants_faq THEN <<"empty">> ELSE << >>)
        home == [route |-> Str_slash, seo |-> "explicit",
                 sections |-> NewSections(home_kinds, home_props, 0)]
        n1 == Len(home_kinds)
        about == IF wants_about
                 THEN << [route |-> Str_about, seo |-> "none",
                          sections |-> NewSections(<<"RichText">>, <<"html">>, n1)] >>
                 ELSE << >>
        n2 == n1 + Len(about)
        contact == IF wants_contact
                   THEN << [route |-> Str_contact, seo |-> "none",
                            sections |-> NewSections(<<"ContactForm">>, <<"empty">>, n2)] >>
                   ELSE << >>
        minimal == IF ~wants_about /\ ~wants_contact
                   THEN << [route |-> Str_contact, seo |-> "none",
                            sections |-> NewSections(<<"ContactForm">>, <<"empty">>, n2)] >>
                   ELSE << >>
    IN  [project |-> DefaultProject, designTokens |-> tokens,
         pages |-> <<home>> \o about \o contact \o minimal]

\* naive_spec_from_prompt with the default contact page added when About or
\* Contact was not asked for
naive_spec_from_prompt_defaultOr(prompt) ==
    LET p == StrLower(prompt)
        tokens == [colors |-> [DefaultColors EXCEPT !.primary = pick_color(prompt)],
                   font |-> pick_font(prompt),
                   radius |-> "12px",
                   spacingScale |-> pick_spacing(prompt),
                   typeScale |-> IF Contains(p, Keywords.big_typography) \/ Contains(p, Keywords.bold_headings)
                                 THEN "lg" ELSE "md"]
        wants_products == \/ Contains(p, Keywords.product) \/ Contains(p, Keywords.store)
                          \/ Contains(p, Keywords.catalog) \/ Contains(p, Keywords.shop)
        wants_testimonials == Contains(p, Keywords.testimonial)
        wants_faq == Contains(p, Keywords.faq)
        wants_contact == Contains(p, Keywords.contact) \/ Contains(p, Keywords.reach_us)
        wants_pricing == Contains(p, Keywords.pricing) \/ Contains(p, Keywords.plans)
        wants_about == \/ Contains(p, Keywords.about) \/ Contains(p, Keywords.company)
                       \/ Contains(p, Keywords.who_we_are)
        home_kinds == <<"Hero">>
                      \o (IF wants_products THEN <<"ProductGrid">> ELSE << >>)
                      \o <<"FeatureGrid">>
                      \o (IF wants_pricing THEN <<"Pricing">> ELSE << >>)
                      \o (IF wants_testimonials THEN <<"Testimonials">> ELSE << >>)
                      \o (IF wants_faq THEN <<"FAQ">> ELSE << >>)
        home_props == <<IF wants_contact THEN "hero:/contact" ELSE "hero:#">>
                      \o (IF wants_products THEN <<"count">> ELSE << >>)
                      \o <<"items">>
                      \o (IF wants_pricing THEN <<"plans">> ELSE << >>)
                      \o (IF wants_testimonials THEN <<"empty">> ELSE << >>)
                      \o (IF wants_faq THEN <<"empty">> ELSE << >>)
        home == [route |-> Str_slash, seo |-> "explicit",
                 sections |-> NewSections(home_kinds, home_props, 0)]
        n1 == Len(home_kinds)
        about == IF wants_about
                 THEN << [route |-> Str_about, seo |-> "none",
                          sections |-> NewSections(<<"RichText">>, <<"html">>, n1)] >>
                 ELSE << >>
        n2 == n1 + Len(about)
        contact == IF wants_contact
                   THEN << [route |-> Str_contact, seo |-> "none",
                            sections |-> NewSections(<<"ContactForm">>, <<"empty">>, n2)] >>
                   ELSE << >>
        minimal == IF ~wants_about \/ ~wants_contact
                   THEN << [route |-> Str_contact, seo |-> "none",
                            sections |-> NewSections(<<"ContactForm">>, <<"empty">>, n2)] >>
                   ELSE << >>
    IN  [project |-> DefaultProject, designTokens |-> tokens,
         pages |-> <<home>> \o about \o contact \o minimal]

\* lines 31-80
naive_spec_from_prompt(prompt) ==
    LET p == StrLower(prompt)
        tokens == [colors |-> [DefaultColors EXCEPT !.primary = pick_color(prompt)],
                   font |-> pick_font(prompt),
                   radius |-> "12px",
                   spacingScale |-> pick_spacing(prompt),
                   typeScale |-> IF Contains(p, Keywords.big_typography) \/ Contains(p, Keywords.bold_headings)
                                 THEN "lg" ELSE "md"]
        wants_products == \/ Contains(p, Keywords.product) \/ Contains(p, Keywords.store)
                          \/ Contains(p, Keywords.catalog) \/ Contains(p, Keywords.shop)
        wants_testimonials == Contains(p, Keywords.testimonial)
        wants_faq == Contains(p, Keywords.faq)
        wants_contact == Contains(p, Keywords.contact) \/ Contains(p, Keywords.reach_us)
        wants_pricing == Contains(p, Keywords.pricing) \/ Contains(p, Keywords.plans)
        wants_about == \/ Contains(p, Keywords.about) \/ Contains(p, Keywords.company)
                       \/ Contains(p, Keywords.who_we_are)
        home_kinds == <<"Hero">>
                      \o (IF wants_products THEN <<"ProductGrid">> ELSE << >>)
                      \o <<"FeatureGrid">>
                      \o (IF wants_pricing THEN <<"Pricing">> ELSE << >>)
                      \o (IF wants_testimonials THEN <<"Testimonials">> ELSE << >>)
                      \o (IF wants_faq THEN <<"FAQ">> ELSE << >>)
        home_props == <<IF wants_contact THEN "hero:/contact" ELSE "hero:#">>
                      \o (IF wants_products THEN <<"count">> ELSE << >>)
                      \o <<"items">>
                      \o (IF wants_pricing THEN <<"plans">> ELSE << >>)
                      \o (IF wants_testimonials THEN <<"empty">> ELSE << >>)
                      \o (IF wants_faq THEN <<"empty">> ELSE << >>)
        home == [route |-> Str_slash, seo |-> "explicit",
                 sections |-> NewSections(home_kinds, home_props, 0)]
        n1 == Len(home_kinds)
        about == IF wants_about
                 THEN << [route |-> Str_about, seo |-> "none",
                          sections |-> NewSections(<<"RichText">>, <<"html">>, n1)] >>
                 ELSE << >>
        n2 == n1 + Len(about)
        contact == IF wants_contact
                   THEN << [route |-> Str_contact, seo |-> "none",
                            sections |-> NewSections(<<"ContactForm">>, <<"empty">>, n2)] >>
                   ELSE << >>
        minimal == IF ~wants_about /\ ~wants_contact
                   THEN << [route |-> Str_contact, seo |-> "none",
                            sections |-> NewSections(<<"ContactForm">>, <<"empty">>, n2)] >>
                   ELSE << >>
    IN  [project |-> DefaultProject, designTokens |-> tokens,
         pages |-> <<home>> \o about \o contact \o minimal]

\* line 128: Spec construction straight from the decoded document.  A page
\* needs a route and every section must be a dict with a SectionType type;
\* a section without an id gets the next uuid4().
RawSectionValid(section) ==
    section.shape = "dict" /\ section.hasType /\ section.type \in SectionType

RawPageValid(page) ==
    /\ page.hasRoute
    /\ page.hasSections => \A i \in DOMAIN page.sections : RawSectionValid(page.sections[i])

RECURSIVE RawSectionsOf(_, _, _)
RawSectionsOf(sections, i, n) ==
    IF i > Len(sections) THEN [out |-> << >>, n |-> n]
    ELSE LET section == sections[i]
             rest == RawSectionsOf(sections, i + 1, IF section.hasId THEN n ELSE n + 1)
         IN  [out |-> << [id |-> IF section.hasId THEN section.id ELSE FreshBase + n,
                          type |-> section.type,
                          props |-> IF section.hasProps THEN "input" ELSE "empty"] >>
                         \o rest.out,
              n |-> rest.n]

RECURSIVE RawPagesToSpec(_, _, _)
RawPagesToSpec(pages, i, n) ==
    IF i > Len(pages) THEN << >>
    ELSE LET page == pages[i]
             secs == IF page.hasSections THEN RawSectionsOf(page.sections, 1, n)
                     ELSE [out |-> << >>, n |-> n]
         IN  << [route |-> page.route, seo |-> IF page.hasSeo THEN "explicit" ELSE "none",
                 sections |-> secs.out] >>
             \o RawPagesToSpec(pages, i + 1, secs.n)

SpecFromRaw(data) ==
    LET pages == IF data.hasPages THEN data.pages ELSE << >> IN
    IF /\ TokensValid(data.designTokens)
       /\ \A i \in DOMAIN pages : RawPageValid(pages[i])
    THEN [ok |-> TRUE,
          spec |-> [project |-> ProjectOf(data.project),
                    designTokens |-> TokensOf(data.designTokens),
                    pages |-> RawPagesToSpec(pages, 1, 0)]]
    ELSE [ok |-> FALSE, spec |-> EmptySpec]

\* lines 84-130: the call of the language model is outside the try block
coverter_gemini_spec_from_prompt(api_key, prompt, reply) ==
    IF ~api_key THEN [raised |-> FALSE, spec |-> naive_spec_from_prompt(prompt), calls |-> 0]
    ELSE IF reply.kind = "raise" THEN [raised |-> TRUE, spec |-> EmptySpec, calls |-> 1]
    ELSE LET raw == StripTokens(reply.text)
             built == SpecFromRaw(reply.doc)
         IN  IF JsonLoads(raw) /\ built.ok
             THEN [raised |-> FALSE, spec |-> built.spec, calls |-> 1]
             ELSE [raised |-> FALSE, spec |-> naive_spec_from_prompt(prompt), calls |-> 1]

\* the prompts given to the converters
Prompts ==
    {<<"s","h","o","p">>,
     <<"P","r","i","c","i","n","g"," ","a","n","d"," ","t","e","s","t","i","m","o","n","i","a","l","s">>,
     <<"a","b","o","u","t"," ","u","s">>,
     <<"c","o","n","t","a","c","t">>,
     <<"b","l","u","e"," ","s","e","r","i","f"," ","f","a","q">>,
     <<"a"," ","b","a","k","e","r","y">>,
     <<"R","e","a","c","h"," ","U","s"," ","p","l","a","n","s">>,
     <<"d","a","r","k"," ","c","o","m","p","a","c","t"," ","s","t","o","r","e">>,
     <<"W","h","o"," ","W","e"," ","A","r","e">>,
     <<"c","o","m","p","a","n","y"," ","c","o","n","t","a","c","t"," ","c","a","t","a","l","o","g">>}

(***************************************************************************)
(* app.py: the Flask endpoints                                             *)
(***************************************************************************)
\* str.strip() on characters
RECURSIVE StrStrip(_)
StrStrip(s) ==
    IF s = << >> THEN << >>
    ELSE IF Head(s) = " " THEN StrStrip(Tail(s))
    ELSE IF s[Len(s)] = " " THEN StrStrip(SubSeq(s, 1, Len(s) - 1))
    ELSE s

\* lines 16-17 and 28-29: (data.get("prompt") or "").strip()
PromptOf(body) == IF body.hasPrompt THEN StrStrip(body.prompt) ELSE << >>

NoReply == [kind |-> "none", text |-> << >>, doc |-> EmptyDoc]

\* a request and its response: the JSON body received, the status and the
\* kind of the response, the Spec built, the calls of the language model
\* made while handling it and what it answered, the site written and
\* whether an archive was written
NoRequest ==
    [endpoint |-> "none", body |-> [hasPrompt |-> FALSE, prompt |-> << >>],
     status |-> 0, kind |-> "none", spec |-> EmptySpec, calls |-> 0,
     reply |-> NoReply, plan |-> << >>, site |-> NoSite, zip |-> FALSE]

\* lines 21-22: the outcome of the converter answered.  An exception that
\* leaves the view is answered by Flask with status 500.
SpecResponse(base, built, reply) ==
    IF built.raised
    THEN [base EXCEPT !.status = 500, !.kind = "exception", !.calls = built.calls,
                      !.reply = IF built.calls > 0 THEN reply ELSE NoReply]
    ELSE [base EXCEPT !.status = 200, !.kind = "spec", !.spec = built.spec,
                      !.calls = built.calls, !.reply = reply]

\* lines 14-22
make_spec(api_key, body, reply) ==
    LET prompt == PromptOf(body)
        base == [NoRequest EXCEPT !.endpoint = "spec", !.body = body]
    IN  IF prompt = << >>
        THEN [base EXCEPT !.status = 400, !.kind = "error"]
        ELSE SpecResponse(base, gemini_spec_from_prompt(api_key, prompt, reply), reply)

\* lines 47-65: the archive sent, or the error answered when generate_website
\* raised
ZipResponse(base, built, reply, plan, made) ==
    IF made.raised
    THEN [base EXCEPT !.status = 500, !.kind = "error", !.spec = built.spec,
                      !.calls = built.calls, !.reply = reply, !.site = made]
    ELSE [base EXCEPT !.status = 200, !.kind = "zip", !.spec = built.spec,
                      !.calls = built.calls + made.calls, !.reply = reply,
                      !.plan = plan, !.site = made, !.zip = TRUE]

\* lines 41-65: the Spec handed to the website generator, or the error
\* answered when the converter raised
SiteResponse(base, built, reply, plan) ==
    IF built.raised
    THEN [base EXCEPT !.status = 500, !.kind = "error", !.calls = built.calls,
                      !.reply = reply]
    ELSE ZipResponse(base, built, reply, plan, generate_website(built.spec, plan))

\* api_generate_website with the credential checked before the prompt
api_generate_website_keyFirst(api_key, body, reply, plan) ==
    LET prompt == PromptOf(body)
        base == [NoRequest EXCEPT !.endpoint = "generate", !.body = body]
    IN  IF ~api_key
        THEN [base EXCEPT !.status = 500, !.kind = "error"]
        ELSE IF prompt = << >>
        THEN [base EXCEPT !.status = 400, !.kind = "error"]
        ELSE SiteResponse(base, gemini_spec_from_prompt(api_key, prompt, reply),
                          reply, plan)

\* lines 24-65
api_generate_website(api_key, body, reply, plan) ==
    LET prompt == PromptOf(body)
        base == [NoRequest EXCEPT !.endpoint = "generate", !.body = body]
    IN  IF prompt = << >>
        THEN [base EXCEPT !.status = 400, !.kind = "error"]
        ELSE IF ~api_key
        THEN [base EXCEPT !.status = 500, !.kind = "error"]
        ELSE SiteResponse(base, gemini_spec_from_prompt(api_key, prompt, reply),
                          reply, plan)

(***************************************************************************)
(* Inputs                                                                  *)
(***************************************************************************)
Str_ab == <<"/","a","b">>
Str_a_b == <<"/","a","/","b">>
Str_MySite == <<"M","y"," ","S","i","t","e">>
Str_shop == <<"s","h","o","p">>

\* section entries a decoded document may carry
RawEntries ==
    {StrEntry("Hero"), StrEntry("ProjectGrid"), StrEntry("Banner"),
     DictEntry(TRUE, "Hero", TRUE, 1, TRUE), DictEntry(TRUE, "Banner", FALSE, 0, FALSE),
     OtherEntry}

\* the route, name and seo keys of a page: explicit route beside a name, a
\* name only (Home, About Us), or none of them
RawHeads ==
    {[hasRoute |-> TRUE, route |-> Str_about, hasName |-> TRUE, name |-> Str_Home, hasSeo |-> TRUE],
     [hasRoute |-> FALSE, route |-> << >>, hasName |-> TRUE, name |-> Str_Home, hasSeo |-> FALSE],
     [hasRoute |-> FALSE, route |-> << >>, hasName |-> TRUE, name |-> Str_AboutUs, hasSeo |-> FALSE],
     [hasRoute |-> FALSE, route |-> << >>, hasName |-> FALSE, name |-> << >>, hasSeo |-> FALSE]}

\* Page lists are drawn by shape: ks[i] is the number of section entries of
\* page i, -1 when the page has no sections key; es holds the entries of all
\* pages one after the other.
Count(k) == IF k < 0 THEN 0 ELSE k

RECURSIVE SumTo(_, _)
SumTo(ks, i) == IF i = 0 THEN 0 ELSE Count(ks[i]) + SumTo(ks, i - 1)

Total(ks) == SumTo(ks, Len(ks))

Shapes(n, budget, least) == {ks \in [1..n -> least..budget] : Total(ks) <= budget}

Slice(es, ks, i) == SubSeq(es, SumTo(ks, i - 1) + 1, SumTo(ks, i))

RawPagesOf(hs, ks, es) ==
    [i \in DOMAIN ks |->
        RawPage(hs[i].hasRoute, hs[i].route, hs[i].hasName, hs[i].name, hs[i].hasSeo,
                ks[i] >= 0, Slice(es, ks, i))]

NoProject == RawProject(FALSE, FALSE, << >>)
NoTokens == RawTokens(FALSE, FALSE, {}, FALSE, {}, FALSE, FALSE, "", FALSE, "")

\* designTokens as a document may give them: missing, complete, with only
\* some colour and font keys, with a spacing scale outside the schema
RawTokensSet ==
    {NoTokens,
     RawTokens(TRUE, TRUE, {"primary", "background", "foreground"}, TRUE, {"heading", "body"},
               TRUE, TRUE, "normal", TRUE, "lg"),
     RawTokens(TRUE, TRUE, {"primary"}, FALSE, {}, FALSE, FALSE, "", FALSE, ""),
     RawTokens(TRUE, FALSE, {}, TRUE, {"heading"}, TRUE, TRUE, "roomy", FALSE, ""),
     RawTokens(TRUE, TRUE, {"primary", "background", "foreground"}, TRUE, {"heading", "body"},
               TRUE, TRUE, "huge", TRUE, "md")}

(***************************************************************************)
(* State                                                                   *)
(***************************************************************************)
VARIABLES
    pc,       \* "serving" for the web application, "input"/"done" for one call
    cred,     \* whether GEMINI_API_KEY is set in the environment
    tmp,      \* slugs of the archives left in the system temporary directory
    last,     \* the last request handled and its response
    data,     \* the decoded document given to the normaliser
    result,   \* the outcome of normalisation and Spec construction
    site,     \* the Spec given to the website generator
    gen,      \* the replies of the body generator during the expansion
    out,      \* what generate_website made of it
    served,   \* the number of requests handled
    build     \* a call of a converter: the prompt, the reply of the model, the outcome

vars == <<pc, cred, tmp, last, data, result, site, gen, out, served, build>>

NoCall == [fn |-> "none", prompt |-> << >>, reply |-> NoReply, raised |-> FALSE,
           spec |-> EmptySpec, calls |-> 0]

NoResult == [ok |-> FALSE, spec |-> EmptySpec]

(***************************************************************************)
(* The normaliser applied to a decoded document                            *)
(***************************************************************************)
\* the documents given to the normaliser: every page list with the tokens
\* missing, and every token variant with no pages key or with one page
InitNorm ==
    /\ pc = "input"
    /\ \/ \E n \in 0..MaxPages : \E ks \in Shapes(n, MaxEntries, -1) :
            \E hs \in [1..n -> RawHeads] : \E es \in [1..Total(ks) -> RawEntries] :
                data = RawDoc(NoProject, NoTokens, TRUE, RawPagesOf(hs, ks, es))
       \/ \E t \in RawTokensSet : data = RawDoc(NoProject, t, FALSE, << >>)
       \/ \E t \in RawTokensSet : \E ks \in Shapes(1, 1, 0) :
            \E hs \in [1..1 -> RawHeads] : \E es \in [1..Total(ks) -> RawEntries] :
                data = RawDoc(NoProject, t, TRUE, RawPagesOf(hs, ks, es))
    /\ result = NoResult
    /\ cred = FALSE /\ tmp = {} /\ last = NoRequest /\ served = 0 /\ build = NoCall
    /\ site = EmptySpec /\ gen = << >> /\ out = NoSite

NormalizeCall ==
    /\ pc = "input"
    /\ result' = Normalize(data)
    /\ pc' = "done"
    /\ UNCHANGED <<cred, tmp, last, data, site, gen, out, served, build>>

NextNorm == NormalizeCall

SpecNorm == InitNorm /\ [][NextNorm]_vars

(***************************************************************************)
(* generate_website applied to a Spec                                      *)
(***************************************************************************)
SiteRoutes == {Str_slash, Str_about, Str_ab, Str_a_b}
SiteKinds == {"Hero", "CTA"}

\* what the body generator may answer on one call
GenReplies ==
    {GenRaise, GenNonText, GenText(<<"code">>), GenText(<<"fencetag", "code", "fence">>),
     GenText(<<"fence">>)}

Plans == [1..GenPeriod -> GenReplies]

\* the body generator answering every call of one expansion alike
RequestPlans == [1..1 -> GenReplies]

SitePagesOf(rs, ks, ts) ==
    [i \in DOMAIN ks |->
        [route |-> rs[i], seo |-> "none",
         sections |-> [j \in 1..ks[i] |->
                          [id |-> FreshBase + SumTo(ks, i - 1) + j - 1,
                           type |-> Slice(ts, ks, i)[j], props |-> "empty"]]]]

SiteProjects ==
    {DefaultProject, [hasName |-> TRUE, name |-> Str_MySite],
     [hasName |-> FALSE, name |-> << >>], [hasName |-> TRUE, name |-> << >>]}

\* the Specs given to the generator: every page list under the default
\* project, and every project with no page or one page
InitExpand ==
    /\ pc = "input"
    /\ \/ \E n \in 0..MaxPages : \E ks \in Shapes(n, MaxSections, 0) :
            \E rs \in [1..n -> SiteRoutes] : \E ts \in [1..Total(ks) -> SiteKinds] :
                site = [project |-> DefaultProject, designTokens |-> DefaultTokens,
                        pages |-> SitePagesOf(rs, ks, ts)]
       \/ \E p \in SiteProjects : \E ks \in Shapes(1, 1, 0) :
            \E rs \in [1..1 -> SiteRoutes] : \E ts \in [1..Total(ks) -> SiteKinds] :
                site = [project |-> p, designTokens |-> DefaultTokens,
                        pages |-> SitePagesOf(rs, ks, ts)]
    /\ gen = << >> /\ out = NoSite
    /\ cred = FALSE /\ tmp = {} /\ last = NoRequest /\ served = 0 /\ build = NoCall
    /\ data = EmptyDoc /\ result = NoResult

ExpandCall ==
    /\ pc = "input"
    /\ \E plan \in Plans :
          /\ gen' = plan
          /\ out' = generate_website(site, plan)
    /\ pc' = "done"
    /\ UNCHANGED <<cred, tmp, last, data, result, site, served, build>>

NextExpand == ExpandCall

SpecExpand == InitExpand /\ [][NextExpand]_vars

(***************************************************************************)
(* generate_website applied to a Spec that has the pages /, /about,        *)
(* /services and /contact                                                  *)
(***************************************************************************)
Str_about_us_team == <<"/","a","b","o","u","t","-","u","s","/","t","e","a","m">>

FullRoutes == {Str_slash, Str_about, Str_services, Str_contact}
ExtraRoutes == {Str_ab, Str_a_b, Str_about_us_team}

\* the four routes in every order
RouteOrders ==
    LET n == Cardinality(FullRoutes)
    IN  {p \in [1..n -> FullRoutes] : \A i, j \in 1..n : i # j => p[i] # p[j]}

\* the pages of the routes rs, each with one section of the kind
FullPagesOf(rs, kind) ==
    SitePagesOf(rs, [i \in DOMAIN rs |-> 1], [i \in DOMAIN rs |-> kind])

\* the Specs given to the generator: the four pages in any order, with up
\* to MaxExtra further pages put between them
InitFull ==
    /\ pc = "input"
    /\ \E p \in RouteOrders : \E n \in 0..MaxExtra : \E xs \in [1..n -> ExtraRoutes] :
          \E at \in 0..Len(p) : \E kind \in SiteKinds :
              site = [project |-> DefaultProject, designTokens |-> DefaultTokens,
                      pages |-> FullPagesOf(SubSeq(p, 1, at) \o xs \o SubSeq(p, at + 1, Len(p)),
                                            kind)]
    /\ gen = << >> /\ out = NoSite
    /\ cred = FALSE /\ tmp = {} /\ last = NoRequest /\ served = 0 /\ build = NoCall
    /\ data = EmptyDoc /\ result = NoResult

FullCall ==
    /\ pc = "input"
    /\ \E plan \in RequestPlans :
          /\ gen' = plan
          /\ out' = generate_website(site, plan)
    /\ pc' = "done"
    /\ UNCHANGED <<cred, tmp, last, data, result, site, served, build>>

NextFull == FullCall

SpecFull == InitFull /\ [][NextFull]_vars

(***************************************************************************)
(* The web application                                                     *)
(***************************************************************************)
Bodies ==
    {[hasPrompt |-> FALSE, prompt |-> << >>],
     [hasPrompt |-> TRUE, prompt |-> << >>],
     [hasPrompt |-> TRUE, prompt |-> <<" ", " ">>],
     [hasPrompt |-> TRUE, prompt |-> Str_shop],
     [hasPrompt |-> TRUE, prompt |-> <<" ">> \o Str_shop \o <<" ">>]}

HeroEntry == StrEntry("Hero")
HomePage(secs) == RawPage(FALSE, << >>, TRUE, Str_Home, FALSE, TRUE, secs)
AboutPage(secs) == RawPage(TRUE, Str_about, FALSE, << >>, TRUE, TRUE, secs)
RootPage(secs) == RawPage(TRUE, Str_slash, FALSE, << >>, FALSE, TRUE, secs)

\* the documents the language model may return
LlmDocs ==
    {EmptyDoc,
     RawDoc(RawProject(TRUE, TRUE, Str_MySite), NoTokens, TRUE,
            <<HomePage(<<HeroEntry>>), AboutPage(<<HeroEntry, StrEntry("Banner")>>)>>),
     RawDoc(NoProject, NoTokens, TRUE,
            <<RootPage(<<DictEntry(TRUE, "Banner", FALSE, 0, FALSE)>>)>>),
     RawDoc(RawProject(TRUE, FALSE, << >>), NoTokens, TRUE, <<RootPage(<<HeroEntry>>)>>),
     RawDoc(NoProject, NoTokens, TRUE,
            <<AboutPage(<<HeroEntry>>), RootPage(<<HeroEntry>>)>>),
     RawDoc(NoProject, NoTokens, TRUE,
            <<RawPage(TRUE, <<"a","b","o","u","t","/">>, FALSE, << >>, FALSE, TRUE,
                      <<HeroEntry>>)>>)}

\* what the language model may do on the spec request
LlmReplies ==
    {LlmRaise, LlmText(<<"junk">>, EmptyDoc), LlmText(<<"doc", "ws", "fence">>, EmptyDoc)}
    \cup {LlmText(<<"doc">>, d) : d \in LlmDocs}
    \cup {LlmText(<<"fence", "json", "ws", "doc", "ws", "fence">>, d) : d \in LlmDocs}

Init ==
    /\ pc = "serving"
    /\ cred \in BOOLEAN
    /\ tmp = {}
    /\ last = NoRequest
    /\ served = 0
    /\ data = EmptyDoc /\ result = NoResult
    /\ site = EmptySpec /\ gen = << >> /\ out = NoSite
    /\ build = NoCall

\* GET /
Index ==
    /\ pc = "serving" /\ served < MaxRequests
    /\ last' = [NoRequest EXCEPT !.endpoint = "index", !.status = 200, !.kind = "html"]
    /\ served' = served + 1
    /\ UNCHANGED <<pc, cred, tmp, data, result, site, gen, out, build>>

\* POST /api/spec
MakeSpec ==
    /\ pc = "serving" /\ served < MaxRequests
    /\ \E body \in Bodies : \E reply \in LlmReplies :
          last' = make_spec(cred, body, reply)
    /\ served' = served + 1
    /\ UNCHANGED <<pc, cred, tmp, data, result, site, gen, out, build>>

\* POST /api/generate
GenerateWebsite ==
    /\ pc = "serving" /\ served < MaxRequests
    /\ \E body \in Bodies : \E reply \in LlmReplies : \E plan \in RequestPlans :
          last' = api_generate_website(cred, body, reply, plan)
    /\ tmp' = IF last'.zip THEN tmp \cup {last'.site.slug} ELSE tmp
    /\ served' = served + 1
    /\ UNCHANGED <<pc, cred, data, result, site, gen, out, build>>

Next == Index \/ MakeSpec \/ GenerateWebsite

Spec == Init /\ [][Next]_vars

(***************************************************************************)
(* The two converters applied to a prompt                                  *)
(***************************************************************************)
InitPipe ==
    /\ pc = "input"
    /\ cred \in BOOLEAN
    /\ \E prompt \in Prompts : build = [NoCall EXCEPT !.prompt = prompt]
    /\ tmp = {} /\ last = NoRequest /\ served = 0
    /\ data = EmptyDoc /\ result = NoResult
    /\ site = EmptySpec /\ gen = << >> /\ out = NoSite

\* the reply is recorded when the language model was called
Called(fn, prompt, reply, r) ==
    [fn |-> fn, prompt |-> prompt, reply |-> IF r.calls > 0 THEN reply ELSE NoReply,
     raised |-> r.raised, spec |-> r.spec, calls |-> r.calls]

\* converter.py, the module app.py imports
ConverterCall ==
    /\ pc = "input"
    /\ \E reply \in LlmReplies :
          build' = Called("converter", build.prompt, reply,
                          gemini_spec_from_prompt(cred, build.prompt, reply))
    /\ pc' = "done"
    /\ UNCHANGED <<cred, tmp, last, data, result, site, gen, out, served>>

\* coverter.py
CoverterCall ==
    /\ pc = "input"
    /\ \E reply \in LlmReplies :
          build' = Called("coverter", build.prompt, reply,
                          coverter_gemini_spec_from_prompt(cred, build.prompt, reply))
    /\ pc' = "done"
    /\ UNCHANGED <<cred, tmp, last, data, result, site, gen, out, served>>

NextPipe == ConverterCall \/ CoverterCall

SpecPipe == InitPipe /\ [][NextPipe]_vars

(***************************************************************************)
(* Generation requests handled concurrently by the threaded server.  The   *)
(* temporary directory of the host is shared: it holds the staging         *)
(* directories and one archive per slug.                                   *)
(***************************************************************************)
Requests == 1..MaxRequests

\* the documents the language model may return to concurrent requests: two
\* projects of the same slug, a document without a project and a project
\* without a name
ConcDocs ==
    {RawDoc(RawProject(TRUE, TRUE, Str_MySite), NoTokens, TRUE, <<HomePage(<<HeroEntry>>)>>),
     RawDoc(RawProject(TRUE, TRUE, Slug(Str_MySite)), NoTokens, TRUE, <<AboutPage(<<HeroEntry>>)>>),
     RawDoc(NoProject, NoTokens, TRUE, <<RootPage(<<HeroEntry>>)>>),
     RawDoc(RawProject(TRUE, FALSE, << >>), NoTokens, TRUE, <<RootPage(<<HeroEntry>>)>>)}

\* lines 684-711: the files written at the root of the project and in src
RootFiles ==
    {[dir |-> d, name |-> << >>] :
        d \in {"package.json", "vite.config.js", "tailwind.config.js", "postcss.config.js",
               "index.html", "README.md", "src/main.jsx", "src/index.css", "src/App.jsx"}}

\* lines 684-785: the file tree staged for spec, a function from the files
\* to their contents
Tree(spec, made) ==
    LET comps == {[dir |-> "src/components", name |-> n] : n \in DOMAIN made.components}
        pages == {[dir |-> "src/pages", name |-> n] : n \in DOMAIN made.pages}
    IN  [p \in RootFiles \cup comps \cup pages |->
            IF p.dir = "src/components" THEN [body |-> made.components[p.name]]
            ELSE IF p.dir = "src/pages" THEN [page |-> made.pages[p.name]]
            ELSE IF p.dir = "src/App.jsx" THEN [routes |-> made.app]
            ELSE IF p.dir \in {"package.json", "index.html", "README.md"}
            THEN [project |-> spec.project.name]
            ELSE IF p.dir = "tailwind.config.js" THEN [tokens |-> spec.designTokens]
            ELSE [static |-> TRUE]]

\* an archive file: whether its bytes are those of one writer, and the
\* entries written; a file just created or truncated has no entry
Archive(whole, files) == [whole |-> whole, files |-> files]

\* the response to a request: the status, its kind and the step that failed
Answer(status, kind, at) == [status |-> status, kind |-> kind, at |-> at]

\* line 671: leaving the with block of tempfile.TemporaryDirectory() without
\* removing the directory
cleanup_keep(dirs, r) == dirs

\* line 671: leaving the with block of tempfile.TemporaryDirectory(), by a
\* return or by an exception, removes the directory
cleanup(dirs, r) == dirs \ {r}

\* line 788
zip_path(spec) == Slug(spec.project.name)

InitConc ==
    /\ pc = [r \in Requests |-> "idle"]
    /\ cred \in BOOLEAN
    /\ tmp = [dirs |-> {}, zips |-> << >>]
    /\ site = [r \in Requests |-> EmptySpec]
    /\ out = [r \in Requests |-> NoSite]
    /\ last = [r \in Requests |-> Answer(0, "none", "none")]
    /\ gen = [r \in Requests |-> [sent |-> FALSE, archive |-> Archive(TRUE, << >>)]]
    /\ served = 0
    /\ data = EmptyDoc /\ result = NoResult /\ build = NoCall

\* app.py lines 27-42: the prompt and the credential are checked and the
\* Spec is built
Receive(r) ==
    /\ pc[r] = "idle"
    /\ \E body \in {[hasPrompt |-> FALSE, prompt |-> << >>],
                     [hasPrompt |-> TRUE, prompt |-> Str_shop]} :
       \E reply \in {LlmRaise} \cup {LlmText(<<"doc">>, d) : d \in ConcDocs} :
          LET prompt == PromptOf(body) IN
          IF prompt = << >>
          THEN /\ last' = [last EXCEPT ![r] = Answer(400, "error", "prompt")]
               /\ pc' = [pc EXCEPT ![r] = "done"]
               /\ site' = site
          ELSE IF ~cred
          THEN /\ last' = [last EXCEPT ![r] = Answer(500, "error", "credential")]
               /\ pc' = [pc EXCEPT ![r] = "done"]
               /\ site' = site
          ELSE IF gemini_spec_from_prompt(cred, prompt, reply).raised
          THEN /\ last' = [last EXCEPT ![r] = Answer(500, "error", "spec")]
               /\ pc' = [pc EXCEPT ![r] = "done"]
               /\ site' = site
          ELSE /\ last' = last
               /\ pc' = [pc EXCEPT ![r] = "spec"]
               /\ site' = [site EXCEPT ![r] = gemini_spec_from_prompt(cred, prompt, reply).spec]
    /\ UNCHANGED <<cred, tmp, data, result, gen, out, served, build>>

\* website_generator.py lines 671-785: the staging directory is created and
\* the file tree written in it.  The project name missing or empty raises
\* at lines 672-673, and any write may raise an OSError; app.py lines 61-65
\* answer the exception.
Stage(r) ==
    /\ pc[r] = "spec"
    /\ \E plan \in {<<GenRaise>>, <<GenText(<<"code">>)>>} : \E oserror \in BOOLEAN :
          LET made == generate_website(site[r], plan) IN
          IF made.raised \/ oserror
          THEN /\ tmp' = [tmp EXCEPT !.dirs = cleanup(tmp.dirs \cup {r}, r)]
               /\ last' = [last EXCEPT ![r] = Answer(500, "error", "stage")]
               /\ pc' = [pc EXCEPT ![r] = "done"]
               /\ out' = out
          ELSE /\ tmp' = [tmp EXCEPT !.dirs = tmp.dirs \cup {r}]
               /\ last' = last
               /\ pc' = [pc EXCEPT ![r] = "staged"]
               /\ out' = [out EXCEPT ![r] = made]
    /\ UNCHANGED <<cred, data, result, site, gen, served, build>>

\* lines 788-789: zipfile.ZipFile(zip_path, 'w') creates the archive file or
\* truncates the one that is there
ZipOpen(r) ==
    /\ pc[r] = "staged"
    /\ tmp' = [tmp EXCEPT !.zips = (zip_path(site[r]) :> Archive(TRUE, << >>)) @@ tmp.zips]
    /\ pc' = [pc EXCEPT ![r] = "zipping"]
    /\ UNCHANGED <<cred, last, data, result, site, gen, out, served, build>>

\* the archive file of r is written by r alone: no other request has it
\* open for writing and none has written to it since r opened it
SoleWriter(r) ==
    /\ tmp.zips[zip_path(site[r])] = Archive(TRUE, << >>)
    /\ \A q \in Requests \ {r} : pc[q] = "zipping" => zip_path(site[q]) # zip_path(site[r])

\* lines 790-796: the staged files are written to the archive, the archive
\* is closed, the staging directory removed and the path returned.  Two
\* writers of one file leave it with the entries of the last one or torn.
ZipWrite(r) ==
    /\ pc[r] = "zipping"
    /\ \E torn \in {FALSE, ~SoleWriter(r)} :
          tmp' = [dirs |-> cleanup(tmp.dirs, r),
                  zips |-> (zip_path(site[r]) :>
                               IF torn THEN Archive(FALSE, << >>)
                               ELSE Archive(TRUE, Tree(site[r], out[r])))
                           @@ tmp.zips]
    /\ pc' = [pc EXCEPT ![r] = "zipped"]
    /\ UNCHANGED <<cred, last, data, result, site, gen, out, served, build>>

\* lines 789-794 raising an OSError: the archive file is left as it is, the
\* staging directory is removed and app.py lines 61-65 answer the exception
ZipFail(r) ==
    /\ pc[r] = "zipping"
    /\ tmp' = [tmp EXCEPT !.dirs = cleanup(tmp.dirs, r)]
    /\ last' = [last EXCEPT ![r] = Answer(500, "error", "zip")]
    /\ pc' = [pc EXCEPT ![r] = "done"]
    /\ UNCHANGED <<cred, data, result, site, gen, out, served, build>>

\* app.py lines 51-56: send_file answers with the file that is at zip_path
Send(r) ==
    /\ pc[r] = "zipped"
    /\ gen' = [gen EXCEPT ![r] = [sent |-> TRUE, archive |-> tmp.zips[zip_path(site[r])]]]
    /\ last' = [last EXCEPT ![r] = Answer(200, "zip", "none")]
    /\ pc' = [pc EXCEPT ![r] = "done"]
    /\ UNCHANGED <<cred, tmp, data, result, site, out, served, build>>

NextConc ==
    \E r \in Requests :
        Receive(r) \/ Stage(r) \/ ZipOpen(r) \/ ZipWrite(r) \/ ZipFail(r) \/ Send(r)

SpecConc == InitConc /\ [][NextConc]_vars

(***************************************************************************)
(* _strip_code_fences applied to a text                                    *)
(***************************************************************************)
\* the texts given to _strip_code_fences: every sequence of at most
\* MaxTokens tokens
InitStrip ==
    /\ pc = "input"
    /\ gen \in UNION {[1..k -> {"fence", "json", "ws", "doc", "junk"}] : k \in 0..MaxTokens}
    /\ out = << >>
    /\ cred = TRUE /\ tmp = {} /\ last = NoRequest /\ served = 0
    /\ data = EmptyDoc /\ result = NoResult /\ site = EmptySpec /\ build = NoCall

StripCall ==
    /\ pc = "input"
    /\ out' = strip_code_fences(gen)
    /\ pc' = "done"
    /\ UNCHANGED <<cred, tmp, last, data, result, site, gen, served, build>>

SpecStrip == InitStrip /\ [][StripCall]_vars

(***************************************************************************)
(* Properties                                                              *)
(***************************************************************************)
MandatoryRoutes == {Str_slash, Str_about, Str_services, Str_contact}

\* the entries of a page that are a bare string or a structured entry
KindEntries(page) ==
    IF page.hasSections
    THEN SelectSeq(page.sections, LAMBDA e : e.shape \in {"str", "dict"})
    ELSE << >>

\* C1: normalisation followed by Spec construction never fails on account of
\* a section kind; every section of the Spec has a kind of the closed
\* enumeration, and an input section whose kind is outside it, bare string or
\* structured entry alike, is in the Spec with kind RichText.
C1_ClosedEnumeration ==
    (pc = "done" /\ data.hasPages /\ TokensValid(data.designTokens)) =>
        /\ result.ok
        /\ \A i \in DOMAIN data.pages :
              LET ins == KindEntries(data.pages[i])
                  outs == result.spec.pages[i].sections
              IN  /\ Len(outs) = Len(ins)
                  /\ \A j \in DOMAIN outs :
                        /\ outs[j].type \in SectionType
                        /\ ins[j].type \notin SectionType => outs[j].type = "RichText"

\* C2: the page list of the normalised Spec has a page for every mandatory
\* route, whatever pages the document had; a route the document did not have
\* is a page with a single Hero section.
C2_MandatoryRoutes ==
    (pc = "done" /\ result.ok) =>
        \A r \in MandatoryRoutes :
            /\ \E i \in DOMAIN result.spec.pages : result.spec.pages[i].route = r
            /\ (~data.hasPages \/ \A i \in DOMAIN data.pages : NormalizeRoute(data.pages[i]) # r)
                  => \E i \in DOMAIN result.spec.pages :
                        /\ result.spec.pages[i].route = r
                        /\ Len(result.spec.pages[i].sections) = 1
                        /\ result.spec.pages[i].sections[1].type = "Hero"

\* C3: the designTokens of the normalised Spec have every colour key, every
\* font key, the radius and both scales set, also when the document gave
\* only some of the colour or font keys.
C3_TokensPopulated ==
    (pc = "done" /\ result.ok) =>
        LET t == result.spec.designTokens
        IN  /\ {"primary", "background", "foreground"} \subseteq DOMAIN t.colors
            /\ {"heading", "body"} \subseteq DOMAIN t.font
            /\ t.radius # ""
            /\ t.spacingScale \in SpacingScales
            /\ t.typeScale \in TypeScales

\* the reply cannot be turned into a Spec: the call raised, the text is not
\* JSON once its fences are stripped, or the document fails validation
ReplyUnusable(reply) ==
    \/ reply.kind = "raise"
    \/ strip_code_fences(reply.text) # <<"doc">>
    \/ ~Normalize(reply.doc).ok

\* C4: when the language model raises, returns text that is not JSON or
\* returns a document that fails validation, the converter returns the
\* rule-based spec of the prompt and no exception reaches its caller.
C4_FallbackOnFailure ==
    (pc = "done" /\ build.calls > 0 /\ ReplyUnusable(build.reply)) =>
        /\ ~build.raised
        /\ build.spec = naive_spec_from_prompt(build.prompt)

\* C5: without the credential the converter returns the rule-based spec of
\* the prompt, raises nothing and does not call the language model.
C5_NoCredentialFallback ==
    (pc = "done" /\ ~cred) =>
        /\ ~build.raised
        /\ build.spec = naive_spec_from_prompt(build.prompt)
        /\ build.calls = 0

\* C6: POST /api/spec answers 400 exactly when the trimmed prompt is empty
\* or missing, and 200 with the Spec for every other prompt.
C6_SpecEndpointStatus ==
    last.endpoint = "spec" =>
        /\ last.status = 400 <=> PromptOf(last.body) = << >>
        /\ PromptOf(last.body) # << >> => (last.status = 200 /\ last.kind = "spec")

\* C7: POST /api/generate answers 400 with an error when the trimmed prompt
\* is empty, also when the credential is missing too; 500 with an error when
\* the credential is missing or a step raised; 200 with the archive
\* otherwise.  With an empty prompt or no credential the language model is
\* not called and nothing is written.
C7_GenerateOutcomes ==
    last.endpoint = "generate" =>
        LET prompt == PromptOf(last.body)
            early == prompt = << >> \/ ~cred
        IN  /\ last.status \in {200, 400, 500}
            /\ last.status = 400 <=> prompt = << >>
            /\ (prompt # << >> /\ ~cred) => last.status = 500
            /\ early => (last.calls = 0 /\ last.site = NoSite /\ ~last.zip)
            /\ last.status \in {400, 500} => (last.kind = "error" /\ ~last.zip)
            /\ last.status = 200 => ( /\ last.kind = "zip" /\ last.zip
                                      /\ ~last.site.raised /\ last.calls >= 1
                                      /\ last.reply.kind = "text" )
            /\ (~early /\ last.reply.kind = "raise") => last.status = 500
            /\ (~early /\ \A i \in DOMAIN last.reply.text : last.reply.text[i] # "doc")
                  => last.status = 500
            /\ (~early /\ last.reply.doc.project.given /\ ~last.reply.doc.project.hasName)
                  => last.status = 500

\* C7 witness: a request without a prompt, sent while the credential is
\* missing, was answered 400
C7_Witness ==
    /\ last.endpoint = "generate" /\ ~cred
    /\ PromptOf(last.body) = << >>
    /\ last.status = 400

\* the component names a page file imports
ImportsOf(page) ==
    LET code == generate_page(page) IN {code.imports[k] : k \in DOMAIN code.imports}

\* C8: two pages of an expanded site whose routes differ share no component
\* name: their Header, their Footer and their sections of the same kind are
\* named differently, and so are the Headers of /about, /services and /.
C8_ComponentNamesDiffer ==
    (pc = "done" /\ ~out.raised) =>
        /\ \A i, j \in DOMAIN site.pages :
              site.pages[i].route # site.pages[j].route =>
                  ImportsOf(site.pages[i]) \cap ImportsOf(site.pages[j]) = {}
        /\ ChromeName(PageName(Str_about), "Header") # ChromeName(PageName(Str_services), "Header")
        /\ ChromeName(PageName(Str_about), "Header") # ChromeName(PageName(Str_slash), "Header")
        /\ ChromeName(PageName(Str_services), "Header") # ChromeName(PageName(Str_slash), "Header")

\* C9: after the expansion of a Spec, whatever the order of its pages, every
\* component a page file imports has a component file of that name.
C9_ImportsExist ==
    (pc = "done" /\ ~out.raised) =>
        \A f \in DOMAIN out.pages :
            \A k \in DOMAIN out.pages[f].imports :
                out.pages[f].imports[k] \in DOMAIN out.components

\* C10: when every call of the body generator raises or returns something
\* that is not text, the expansion completes and every component of every
\* page has a file with a non-empty placeholder body.
C10_FallbackAvailability ==
    (pc = "done" /\ ~out.raised /\ \A k \in DOMAIN gen : gen[k].kind \in {"raise", "nontext"}) =>
        \A i \in DOMAIN site.pages :
            \A name \in ImportsOf(site.pages[i]) :
                /\ name \in DOMAIN out.components
                /\ out.components[name].lines # << >>
                /\ out.components[name].origin \in {"component_templates", "website_generator"}

\* C11: every page of a normalized Spec has a Header section as its first
\* section and a Footer section as its last one, each exactly once.
C11_HeaderFooterSandwich ==
    (pc = "done" /\ result.ok) =>
        \A i \in DOMAIN result.spec.pages :
            LET sections == result.spec.pages[i].sections
            IN  /\ Len(sections) >= 2
                /\ sections[1].type = "Header"
                /\ sections[Len(sections)].type = "Footer"
                /\ Cardinality({j \in DOMAIN sections : sections[j].type = "Header"}) = 1
                /\ Cardinality({j \in DOMAIN sections : sections[j].type = "Footer"}) = 1

\* the converter of coverter.py returned the rule-based spec: it had no
\* credential, or the reply of the language model was unusable
RuleBased ==
    /\ pc = "done" /\ build.fn = "coverter" /\ ~build.raised
    /\ build.calls = 0 \/ ReplyUnusable(build.reply)

\* the prompt mentions one of the keywords, whatever the case of its letters
Mentions(prompt, keys) == \E k \in keys : Contains(StrLower(prompt), k)

KindsOf(sections) == [j \in DOMAIN sections |-> sections[j].type]

KindCount(sections, kind) == Cardinality({j \in DOMAIN sections : sections[j].type = kind})

HomeKinds(spec) ==
    LET i == CHOOSE i \in DOMAIN spec.pages : spec.pages[i].route = Str_slash
    IN  KindsOf(spec.pages[i].sections)

\* C12: the Home page of the rule-based spec has exactly one Hero, first,
\* exactly one FeatureGrid, and a ProductGrid, a Pricing, a Testimonials and
\* an FAQ section exactly when the prompt mentions their keywords, in any
\* case; a prompt that mentions only pricing and testimonials gives Hero,
\* FeatureGrid, Pricing, Testimonials.
C12_RuleBasedHome ==
    RuleBased =>
        /\ \E i \in DOMAIN build.spec.pages : build.spec.pages[i].route = Str_slash
        /\ \A i \in DOMAIN build.spec.pages :
              build.spec.pages[i].route = Str_slash =>
                  LET sections == build.spec.pages[i].sections
                      products == Mentions(build.prompt, {Keywords.product, Keywords.store, Keywords.catalog, Keywords.shop})
                      pricing == Mentions(build.prompt, {Keywords.pricing, Keywords.plans})
                      testimonials == Mentions(build.prompt, {Keywords.testimonial})
                      faq == Mentions(build.prompt, {Keywords.faq})
                  IN  /\ sections # << >> /\ sections[1].type = "Hero"
                      /\ KindCount(sections, "Hero") = 1
                      /\ KindCount(sections, "FeatureGrid") = 1
                      /\ KindCount(sections, "ProductGrid") > 0 <=> products
                      /\ KindCount(sections, "Pricing") > 0 <=> pricing
                      /\ KindCount(sections, "Testimonials") > 0 <=> testimonials
                      /\ KindCount(sections, "FAQ") > 0 <=> faq
                      /\ (pricing /\ testimonials /\ ~products /\ ~faq) =>
                            KindsOf(sections) = <<"Hero", "FeatureGrid", "Pricing", "Testimonials">>

C12_Witness ==
    /\ RuleBased
    /\ Mentions(build.prompt, {Keywords.pricing}) /\ ~Contains(build.prompt, Keywords.pricing)
    /\ HomeKinds(build.spec) = <<"Hero", "FeatureGrid", "Pricing", "Testimonials">>

RoutesOf(spec) == {spec.pages[i].route : i \in DOMAIN spec.pages}

\* C13: the rule-based spec has at least two pages with pairwise distinct
\* routes: Home always, /about exactly when the prompt mentions about,
\* company or "who we are", and /contact, with a single ContactForm section,
\* exactly when the prompt mentions contact or "reach us" or asks for neither
\* About nor Contact.
C13_RuleBasedPages ==
    RuleBased =>
        LET pages == build.spec.pages
            about == Mentions(build.prompt, {Keywords.about, Keywords.company, Keywords.who_we_are})
            contact == Mentions(build.prompt, {Keywords.contact, Keywords.reach_us})
        IN  /\ Len(pages) >= 2
            /\ \A i, j \in DOMAIN pages : i # j => pages[i].route # pages[j].route
            /\ Str_slash \in RoutesOf(build.spec)
            /\ Str_about \in RoutesOf(build.spec) <=> about
            /\ Str_contact \in RoutesOf(build.spec) <=> (contact \/ (~about /\ ~contact))
            /\ \A i \in DOMAIN pages :
                  pages[i].route = Str_contact =>
                      KindsOf(pages[i].sections) = <<"ContactForm">>

C13_Witness ==
    /\ RuleBased
    /\ Mentions(build.prompt, {Keywords.contact}) /\ ~Mentions(build.prompt, {Keywords.about, Keywords.company, Keywords.who_we_are})
    /\ RoutesOf(build.spec) = {Str_slash, Str_contact}
    /\ Len(build.spec.pages) = 2

\* the sections key of the page is a list of bare strings
AllStrings(page) ==
    page.hasSections /\ \A j \in DOMAIN page.sections : page.sections[j].shape = "str"

\* the identifiers the input document carries
InputIds(doc) ==
    UNION {{doc.pages[i].sections[j].id :
              j \in {j \in DOMAIN doc.pages[i].sections : doc.pages[i].sections[j].hasId}} :
           i \in {i \in DOMAIN doc.pages : doc.pages[i].hasSections}}

\* section j of page i has an identifier that is neither an identifier of
\* the input nor the identifier of another section of the Spec
FreshId(spec, doc, i, j) ==
    LET id == spec.pages[i].sections[j].id
    IN  /\ id \notin InputIds(doc)
        /\ \A k \in DOMAIN spec.pages : \A l \in DOMAIN spec.pages[k].sections :
              <<k, l>> # <<i, j>> => spec.pages[k].sections[l].id # id

\* normalisation of pages given as bare strings, Kind being the kind a string
\* is to get
BareStrings(Kind(_)) ==
    (pc = "done" /\ data.hasPages /\ TokensValid(data.designTokens)) =>
        /\ (\A i \in DOMAIN data.pages : AllStrings(data.pages[i])) => result.ok
        /\ result.ok =>
              \A i \in DOMAIN data.pages :
                  AllStrings(data.pages[i]) =>
                      LET given == data.pages[i].sections
                          sections == result.spec.pages[i].sections
                      IN  /\ Len(sections) = Len(given)
                          /\ \A j \in DOMAIN given :
                                /\ sections[j].type = Kind(given[j].type)
                                /\ sections[j].props = "empty"
                                /\ FreshId(result.spec, data, i, j)
                          /\ (~data.pages[i].hasRoute /\ data.pages[i].hasName
                                /\ data.pages[i].name = Str_Home) =>
                                    result.spec.pages[i].route = Str_slash

Str_About == <<"A","b","o","u","t">>

HasKind(page, kind) == \E j \in DOMAIN page.sections : page.sections[j].type = kind

\* no component file is written twice
NoOverwrite(writes) ==
    \A a, b \in DOMAIN writes : a # b => writes[a] # writes[b]

\* C15: the expansion of a two-page Spec with the routes / and /about, both
\* pages having a Hero section, writes Header.jsx, Footer.jsx and Hero.jsx
\* for Home and AboutHeader.jsx, AboutFooter.jsx and AboutHero.jsx for About:
\* six different names, no file overwriting another.
C15_TwoPageFiles ==
    ( /\ pc = "done" /\ ~out.raised
      /\ Len(site.pages) = 2
      /\ RoutesOf(site) = {Str_slash, Str_about}
      /\ \A i \in DOMAIN site.pages : HasKind(site.pages[i], "Hero") ) =>
        LET names == {KindChars("Header"), KindChars("Footer"), KindChars("Hero"),
                      Str_About \o KindChars("Header"), Str_About \o KindChars("Footer"),
                      Str_About \o KindChars("Hero")}
        IN  /\ Cardinality(names) = 6
            /\ names \subseteq DOMAIN out.components
            /\ NoOverwrite(out.writes)

C17_MandatoryPagesExpanded ==
    (pc = "done" /\ ~out.raised) =>
        \A r \in MandatoryRoutes :
            /\ \E i \in DOMAIN out.app : out.app[i].path = r
            /\ \E f \in DOMAIN out.pages :
                  /\ out.pages[f].route = r
                  /\ r \notin RoutesOf(site) =>
                        out.pages[f].jsx = <<ChromeName(PageName(r), "Header"),
                                             ComponentName(PageName(r), "Hero"),
                                             ChromeName(PageName(r), "Footer")>>

\* the route split on its non-alphanumeric characters, every segment
\* title-cased, the segments concatenated
RECURSIVE SegmentsTitled(_, _, _)
SegmentsTitled(route, i, inSegment) ==
    IF i > Len(route) THEN << >>
    ELSE IF IsLower(route[i]) \/ IsUpper(route[i])
    THEN << (IF inSegment THEN LowerChar(route[i]) ELSE UpperChar(route[i])) >>
         \o SegmentsTitled(route, i + 1, TRUE)
    ELSE SegmentsTitled(route, i + 1, FALSE)

ClaimedPageName(route) ==
    IF route = Str_slash THEN Str_Home ELSE SegmentsTitled(route, 1, FALSE)

\* C18: the page name of / is Home and the page name of another route is its
\* segments, split on non-alphanumeric characters, title-cased and
\* concatenated (/about-us/team gives AboutUsTeam); the route table, the
\* page file and the component files of a page all use this name.
C18_PageNameDerivation ==
    (pc = "done" /\ ~out.raised) =>
        \A i \in DOMAIN site.pages :
            LET page_name == ClaimedPageName(site.pages[i].route)
            IN  /\ out.app[i].element = page_name \o Str_Page
                /\ page_name \o Str_Page \in DOMAIN out.pages
                /\ ChromeName(page_name, "Header") \in DOMAIN out.components
                /\ ChromeName(page_name, "Footer") \in DOMAIN out.components
                /\ \A j \in DOMAIN site.pages[i].sections :
                      ComponentName(page_name, site.pages[i].sections[j].type)
                          \in ImportsOf(site.pages[i])

\* the elements of a sequence in the order of their first occurrence
RECURSIVE FirstOccurrences(_)
FirstOccurrences(s) ==
    IF s = << >> THEN << >>
    ELSE LET front == FirstOccurrences(SubSeq(s, 1, Len(s) - 1))
             x == s[Len(s)]
         IN  IF \E k \in DOMAIN front : front[k] = x THEN front ELSE Append(front, x)

\* the page file renders the Header of the page, then the components of the
\* sections of the page one by one, then the Footer, and imports them in
\* this order, each once
RendersPage(file, page) ==
    LET page_name == PageName(page.route)
        header == ChromeName(page_name, "Header")
        footer == ChromeName(page_name, "Footer")
        n == Len(page.sections)
    IN  /\ Len(file.jsx) = n + 2
        /\ file.jsx[1] = header /\ file.jsx[n + 2] = footer
        /\ \A j \in 1..n : file.jsx[j + 1] = ComponentName(page_name, page.sections[j].type)
        /\ Cardinality({k \in DOMAIN file.jsx : file.jsx[k] = header}) = 1
        /\ Cardinality({k \in DOMAIN file.jsx : file.jsx[k] = footer}) = 1
        /\ file.imports = FirstOccurrences(file.jsx)

\* C19: every page file renders one Header first, then one component per
\* section of its page in the order of the sections, a repeated kind once
\* per occurrence, then one Footer last, and imports every component it
\* uses exactly once in the same order.
C19_PageRenderOrder ==
    (pc = "done" /\ ~out.raised) =>
        /\ \A f \in DOMAIN out.pages :
              \E i \in DOMAIN site.pages :
                  /\ out.pages[f].route = site.pages[i].route
                  /\ RendersPage(out.pages[f], site.pages[i])
        /\ \A i \in DOMAIN site.pages :
              (\A k \in DOMAIN site.pages : k > i =>
                    PageName(site.pages[k].route) # PageName(site.pages[i].route)) =>
                  /\ PageName(site.pages[i].route) \o Str_Page \in DOMAIN out.pages
                  /\ RendersPage(out.pages[PageName(site.pages[i].route) \o Str_Page],
                                 site.pages[i])

C19_Witness ==
    /\ pc = "done" /\ ~out.raised
    /\ \E i \in DOMAIN site.pages :
          /\ site.pages[i].route = Str_about
          /\ KindsOf(site.pages[i].sections) = <<"Hero", "Hero">>
          /\ Str_About \o Str_Page \in DOMAIN out.pages
          /\ Len(out.pages[Str_About \o Str_Page].jsx) = 4
          /\ Len(out.pages[Str_About \o Str_Page].imports) = 3

\* the component names of the sections of all pages
SectionNames(spec) ==
    UNION {{ComponentName(PageName(spec.pages[i].route), spec.pages[i].sections[j].type) :
              j \in DOMAIN spec.pages[i].sections} : i \in DOMAIN spec.pages}

\* C20: in one expansion the body generator is called at most once per
\* component name and no component file is written twice, also when a
\* section kind occurs several times on one page or on several pages.
C20_GenerateOnce ==
    (pc = "done" /\ ~out.raised) =>
        /\ NoOverwrite(out.writes)
        /\ out.calls <= Cardinality(SectionNames(site))
        /\ out.calls <= Len(out.writes)

C20_Witness ==
    /\ pc = "done" /\ ~out.raised
    /\ \E i \in DOMAIN site.pages : KindCount(site.pages[i].sections, "Hero") = 2
    /\ out.calls = 1
    /\ NoOverwrite(out.writes)

\* the routes of the pages of the Spec are pairwise different
DistinctRoutes(spec) ==
    \A i, j \in DOMAIN spec.pages : i # j => spec.pages[i].route # spec.pages[j].route

\* C21: the expanded site has exactly one page file per page and one
\* route-table entry per page, which maps the route of the page to the page
\* component generated from the sections of that page; no page file is
\* overwritten by another page, also when two routes differ only in
\* separators or slashes.
C21_OnePageFilePerPage ==
    (pc = "done" /\ ~out.raised /\ DistinctRoutes(site)) =>
        /\ Len(out.app) = Len(site.pages)
        /\ Cardinality(DOMAIN out.pages) = Len(site.pages)
        /\ \A i \in DOMAIN site.pages :
              /\ out.app[i].path = site.pages[i].route
              /\ out.app[i].element \in DOMAIN out.pages
              /\ out.pages[out.app[i].element].route = site.pages[i].route
              /\ RendersPage(out.pages[out.app[i].element], site.pages[i])

Str_about_us == <<"/","a","b","o","u","t","-","u","s">>

\* the route the claim gives a page of the input document
ClaimedRoute(page) ==
    IF page.hasRoute THEN page.route
    ELSE IF page.hasName
    THEN LET derived == [k \in DOMAIN page.name |->
                            IF page.name[k] = " " THEN "-" ELSE LowerChar(page.name[k])]
         IN  IF derived = Str_home THEN Str_slash ELSE <<"/">> \o derived
    ELSE Str_slash

\* C22: a normalized page has the route of its route field when the field
\* is present; otherwise the route derived from its name, lowercased with
\* hyphens for spaces, / for home and / followed by the result otherwise;
\* and / when it has neither field.
C22_RouteDerivation ==
    (pc = "done" /\ result.ok /\ data.hasPages) =>
        /\ Len(result.spec.pages) = Len(data.pages)
        /\ \A i \in DOMAIN data.pages :
              LET page == data.pages[i]
                  route == result.spec.pages[i].route
              IN  /\ route = ClaimedRoute(page)
                  /\ (page.hasRoute /\ page.hasName) => route = page.route
                  /\ (~page.hasRoute /\ page.hasName /\ page.name = Str_Home) => route = Str_slash
                  /\ (~page.hasRoute /\ page.hasName /\ page.name = Str_AboutUs) =>
                        route = Str_about_us
                  /\ (~page.hasRoute /\ ~page.hasName) => route = Str_slash

C22_Witness ==
    /\ pc = "done" /\ result.ok /\ data.hasPages /\ Len(data.pages) = 2
    /\ ~data.pages[1].hasRoute /\ data.pages[1].name = Str_Home
    /\ ~data.pages[2].hasRoute /\ data.pages[2].name = Str_AboutUs
    /\ result.spec.pages[1].route = Str_slash
    /\ result.spec.pages[2].route = Str_about_us

\* a route is / or starts with / and does not end with /
WellFormedRoute(route) ==
    \/ route = Str_slash
    \/ route # << >> /\ route[1] = "/" /\ route[Len(route)] # "/"

\* C23: every page of a normalized Spec has a route that is / or starts
\* with / and has no trailing /, whatever route or name the document gave.
C23_RouteFormat ==
    (pc = "done" /\ build.fn = "converter" /\ ~build.raised) =>
        \A i \in DOMAIN build.spec.pages : WellFormedRoute(build.spec.pages[i].route)

\* C24: in a normalized Spec the identifiers of all sections across all
\* pages are pairwise distinct, whatever identifiers the document supplied.
C24_DistinctSectionIds ==
    (pc = "done" /\ result.ok) =>
        \A i, k \in DOMAIN result.spec.pages :
            \A j \in DOMAIN result.spec.pages[i].sections :
                \A l \in DOMAIN result.spec.pages[k].sections :
                    <<i, j>> # <<k, l>> =>
                        result.spec.pages[i].sections[j].id # result.spec.pages[k].sections[l].id

\* C25: for generation requests handled concurrently, the archive sent in
\* each response holds exactly the file set derived from that request's
\* own Spec, also when two project names give the same slug.
C25_OwnArchive ==
    \A r \in Requests :
        gen[r].sent => gen[r].archive = Archive(TRUE, Tree(site[r], out[r]))

\* the response of request r is final
Answered(r) == pc[r] = "done"

\* C26: a 200 response carries an archive holding every root artifact,
\* every component file and every page file of the expansion, and a request
\* of which a step failed is answered with an error and no archive.
C26_AllOrNothing ==
    \A r \in Requests :
        Answered(r) =>
            IF last[r].status = 200
            THEN /\ gen[r].sent /\ gen[r].archive.whole
                 /\ DOMAIN Tree(site[r], out[r]) \subseteq DOMAIN gen[r].archive.files
                 /\ RootFiles \subseteq DOMAIN gen[r].archive.files
            ELSE last[r].kind = "error" /\ ~gen[r].sent

\* C27: the staging directory of a request no longer exists once
\* generate_website has returned or raised, whatever the exit path.
C27_StagingRemoved ==
    \A r \in Requests : pc[r] \in {"zipped", "done"} => r \notin tmp.dirs

\* one request left generate_website by a return, after a component body
\* fell back, and another by an exception while zipping, their staging
\* directories having existed
C27_Witness ==
    \E r, q \in Requests :
        /\ pc[r] = "done" /\ last[r].status = 200
        /\ \E n \in DOMAIN out[r].components : out[r].components[n].origin = "component_templates"
        /\ pc[q] = "done" /\ last[q].at = "zip"
        /\ tmp.dirs = {}

\* the names of the section components of an expansion
SectionComponents(made) ==
    {n \in DOMAIN made.components : made.components[n].kind \notin {"Header", "Footer"}}

\* the calls of the language model made for the Spec of a generation request
SpecCalls(req) == req.calls - req.site.calls

\* a generation request reaches a response after at most one call for the
\* Spec and at most one call per section component
C28_CallBounds ==
    last.endpoint = "generate" =>
        /\ last.status \in {200, 400, 500}
        /\ SpecCalls(last) <= 1
        /\ last.site.calls <= Cardinality(SectionComponents(last.site))

\* C28: a generation request makes at most one spec-generation call and at
\* most one body-generation call per unique component name, each failed call
\* being followed by a fallback rather than a new attempt, and it reaches a
\* response.
C28_NoRetry ==
    last.endpoint = "generate" =>
        /\ C28_CallBounds
        /\ (SpecCalls(last) = 1 /\ last.reply.kind = "raise") => last.kind = "zip"
        /\ (last.kind = "zip" /\ last.plan[1].kind = "raise") =>
              \A n \in SectionComponents(last.site) :
                  last.site.components[n].origin = "component_templates"

\* the text the claim describes: the trimmed text, without its leading
\* fence, the json tag after it and its trailing fence when it starts with
\* a fence, trimmed again
ClaimedStrip(s) ==
    LET t == StripTokens(s)
        afterFence == IF t # << >> THEN Tail(t) ELSE << >>
        afterTag == IF afterFence # << >> /\ Head(afterFence) = "json"
                    THEN Tail(afterFence) ELSE afterFence
        between == IF afterTag # << >> /\ afterTag[Len(afterTag)] = "fence"
                   THEN SubSeq(afterTag, 1, Len(afterTag) - 1) ELSE afterTag
    IN  IF t # << >> /\ Head(t) = "fence" THEN StripTokens(between) ELSE t

\* _strip_code_fences returns the text the claim describes
C29_StripsOneWrapper == pc = "done" => out = ClaimedStrip(gen)

\* C29: _strip_code_fences removes a leading fence, with or without the
\* json tag, and the trailing fence, and returns the text between them
\* trimmed; a text that does not start with a fence is returned trimmed; and
\* applying the function to its own result changes nothing.
C29_StripCodeFences ==
    pc = "done" => out = ClaimedStrip(gen) /\ strip_code_fences(out) = out

\* C30: every component file an expansion writes has a non-empty body,
\* whatever text the body generator returned.
C30_NonEmptyBodies ==
    (pc = "done" /\ ~out.raised) =>
        \A n \in DOMAIN out.components : out.components[n].lines # << >>

====
